---- MODULE Spec2Model ----
(***************************************************************************)
(* Backup orchestration engine of tayberry-backup-studio                   *)
(* (app/backup_core/engine.py) together with the time resolver            *)
(* (app/backup_core/time_utils.py) and the bundle writers it drives        *)
(* (app/backup_core/steps/*.py), as a state machine.                       *)
(*                                                                         *)
(* One behaviour is one BackupEngine instance: construction (Init), at    *)
(* most one run_backup call, and cancel() requests arriving from another   *)
(* thread at any moment.  The file system is represented by the set of     *)
(* paths the run has created; what the run finds on disk (missing          *)
(* directories, failing writes) is chosen by the environment at the        *)
(* moment the code looks.                                                  *)
(***************************************************************************)
EXTENDS Integers, Sequences, FiniteSets, TLC

(* ----------------------------- bounds ---------------------------------- *)
\* longest requested step list (profile.include_steps / include_steps_override)
MaxSteps == 2
\* most search sets configured in app_config.search_sets
MaxSearchSets == 1
\* longest search_set_ids list handed to run_backup
MaxIds == 2
\* most BackupWorker threads a window creates
MaxWorkers == 2
\* most top-level folders, and most files in one, a universal backup meets
MaxFolders == 2
MaxFolderFiles == 2

(* ------------------------ program constants ---------------------------- *)
\* config.py: BackupStepName / ALLOWED_STEPS
ALLOWED_STEPS ==
  {"trees", "code_txt", "ts_tsx_md_bundles", "full_ts_tsx_bundle", "configs",
   "tsconfig_bundle", "api_group_bundles", "paths", "keyword_search",
   "project_root_files"}

\* a step name outside ALLOWED_STEPS, as a caller may pass in the override
UnknownStep == "bogus_step"

\* engine.py: the order in which run_backup tests the step blocks
Blocks ==
  <<"trees", "code_txt", "ts_tsx_md_bundles", "full_ts_tsx_bundle", "configs",
    "api_group_bundles", "paths", "keyword_search", "project_root_files">>

NumBlocks == Len(Blocks)
\* the "ZIP archive" and "Summary" phases follow the step blocks
ZipBlock == NumBlocks + 1
SummaryBlock == NumBlocks + 2

\* engine.py: step_to_label
step_to_label ==
  [s \in ALLOWED_STEPS |->
     CASE s = "trees" -> "Directory trees"
       [] s = "code_txt" -> "Code text bundles"
       [] s = "ts_tsx_md_bundles" -> "TS/TSX markdown bundles"
       [] s = "full_ts_tsx_bundle" -> "Full TS/TSX bundle"
       [] s = "configs" -> "Config bundles"
       [] s = "tsconfig_bundle" -> "TSConfig bundle"
       [] s = "api_group_bundles" -> "API grouped bundles"
       [] s = "paths" -> "Path listings"
       [] s = "project_root_files" -> "Project root helpers"
       [] s = "keyword_search" -> "Keyword search bundles"]

\* the designated sub-areas the writers look for (trees.py area_map, ...)
DesignatedAreas == <<"apps/admin", "apps/api", "apps/site", "libs">>

\* The project tree under backup: the sub-areas that exist as directories.
\* Every existing area and the project root hold source files.
ProjectAreas == {"apps/api", "libs"}

\* time_utils.py: the getters in the order get_current_time tries them
NetworkSources == <<"worldtimeapi.org", "timeapi.io", "google-header">>

\* timezone names handed to get_current_time; the last one is not in the
\* zone database
TimeZones ==
  {"Asia/Tehran", "UTC", "Europe/Berlin", "Europe/London", "Europe/Paris",
   "America/New_York", "America/Chicago", "Asia/Tokyo", "Asia/Dubai",
   "Australia/Sydney", "Mars/Olympus", "not a zone", ""}

\* timezone names a ProjectConfig handed to the engine carries
EngineZones == {"Asia/Tehran", "Mars/Olympus"}

\* zoneinfo.ZoneInfo(name) succeeds
ValidZone(name) ==
  name \in {"Asia/Tehran", "UTC", "Europe/Berlin", "Europe/London",
            "Europe/Paris", "America/New_York", "America/Chicago",
            "Asia/Tokyo", "Asia/Dubai", "Australia/Sydney"}

\* what one network getter can meet; everything but "ok" is caught,
\* logged at debug level and turned into None
SourceOutcomes(src) ==
  {"ok", "timeout", "http_error", "malformed"}
    \cup (IF src = "google-header" THEN {"no_date_header"} ELSE {})

VARIABLES
  dry_run,          \* run_backup(dry_run=...)
  skip_zip,         \* effective skip_zip (override or profile)
  raw_steps,        \* requested step list (override or profile.include_steps)
  drop_root_files,  \* include_project_root_files is False or
                    \* profile.no_root_files
  search_sets,      \* number of search sets in app_config.search_sets
  include_steps,    \* run_backup local: recognised, filtered step list
  phase_total,      \* run_backup local: len(phases)
  phase_index,      \* run_backup local
  active_sets,      \* run_backup local: len(active_sets) of the search step
  pc,               \* position of the run_backup / get_current_time call
  blk,              \* which step block of run_backup control is at
  out_k,            \* writer position: index of the next output file
  cancel_event,     \* BackupEngine.cancel_event
  exc,              \* exception in flight inside run_backup's try
  progress,         \* calls received by progress_callback, in order
  trace,            \* phase begin/end events, in order
  warned,           \* messages passed to _warn
  logged,           \* tags passed to _log
  fs,               \* paths created on disk by this run
  backup_dir,       \* BackupEngine._backup_dir
  result,           \* the run's BackupResult
  outcome,          \* how run_backup ended
  caller_view,      \* what the caller of run_backup holds afterwards
  caller,           \* who called get_current_time
  tz,               \* get_current_time(timezone_name, ...)
  use_network_time, \* get_current_time(..., use_network_time)
  queries,          \* network getters called by get_current_time, in order,
                    \* each with whether it returned a result
  time_result,      \* what get_current_time returned or raised
  run_no,           \* 1 for the run, 2 for its dry/real counterpart
  prev_progress,    \* the progress calls the first of the two runs made
  greg,             \* the datetime handed to gregorian_to_jalali: <<y, m, d>>
  jalali,           \* the JalaliDate gregorian_to_jalali returned
  scan_tree,        \* the files below ScanConfig.root, each a path of names
  scan_cfg,         \* the ScanConfig handed to iter_files
  scan_todo,        \* os.walk: directories still to be listed
  scan_visited,     \* os.walk: directories listed so far
  scan_yielded,     \* the paths iter_files has yielded
  read_file,        \* the file read_text_with_limit is called on
  read_max_kb,      \* read_text_with_limit(..., max_kb)
  read_outputs,     \* what the calls of read_text_with_limit gave, in order
  read_warned,      \* messages handed to its warn callback, in order
  n_files,          \* source files an unrestricted scan of an area finds
  n_selected,       \* source files a selective scan finds (TS-only tree,
                    \* config file lists, a search set's extensions)
  bw_pc,            \* position inside a bundle writer
  bw_src,           \* bundle writer: index of the next source file
  bundle_entries,   \* entries appended to the bundles, in order
  failed_reads,     \* <<output, source index>> of reads that met an I/O error
  engines,          \* two BackupEngine instances at their pre-checks
  made_dirs,        \* <<directory, engine>>: directories on disk and who
                    \* created them
  reused_dirs,      \* <<directory, engine>>: mkdir calls that found the
                    \* directory in place
  requested,        \* the step list asked for and where it is written: in
                    \* the profile of the config file, or in the override
  config_outcome,   \* how load_app_config ended
  app_search_sets,  \* the ids of app_config.search_sets, in dict order
  search_set_ids,   \* run_backup(search_set_ids=...)
  kw,               \* the keyword-search block of a run_backup call
  window,           \* the main window: its _worker and its busy state
  workers,          \* the BackupWorker threads created so far
  signals,          \* finished_ok / finished_error emissions queued for
                    \* the window's thread
  zip_in,           \* create_zip(backup_dir, output_dir): the arguments and
                    \* the tree below backup_dir
  zip_st,            \* create_zip: the archive and the directories os.walk
                    \* has still to list
  hdr_cfg,          \* the OutputConfig a bundle writer is given
  hdr_files,        \* the scanned files, as paths relative to the root
  hdr_sections,     \* what _write_text_bundle wrote before each body
  hdr_pc,            \* position of the writer
  ub_in,            \* run_universal_backup: split_by_folder and the files
                    \* the scan meets, by top-level folder
  ub,                \* run_universal_backup: its position, the cancel flag
                    \* behind cancel_check, the outputs and how it ended
  nb_cfg,           \* the OutputConfig fields the filename builder reads
  nb_paths,          \* <<base, path>>: the paths the builder has returned
  tr_in,            \* the project generate_trees walks and the cancel flag
  tr_st             \* generate_trees: position, TreeStats, files written

vars ==
  <<dry_run, skip_zip, raw_steps, search_sets, include_steps, phase_total,
    phase_index, active_sets, pc, blk, out_k, cancel_event, exc, progress,
    trace, warned, logged, fs, backup_dir, result, outcome, caller_view,
    caller, tz, use_network_time, queries, time_result,
    drop_root_files, run_no, prev_progress, greg, jalali,
    scan_tree, scan_cfg, scan_todo, scan_visited, scan_yielded,
    read_file, read_max_kb, read_outputs, read_warned,
    n_files, n_selected, bw_pc, bw_src, bundle_entries, failed_reads,
    engines, made_dirs, reused_dirs, requested, config_outcome,
    app_search_sets, search_set_ids, kw, window, workers, signals,
    zip_in, zip_st,
    hdr_cfg, hdr_files, hdr_sections, hdr_pc,
    ub_in, ub,
    nb_cfg, nb_paths,
    tr_in, tr_st>>

inputVars ==
  <<dry_run, skip_zip, raw_steps, drop_root_files, caller, run_no,
    prev_progress>>
timeVars == <<tz, use_network_time, queries, time_result>>
engineVars ==
  <<search_sets, include_steps, phase_total, phase_index, active_sets, blk,
    out_k, cancel_event, exc, progress, trace, warned, logged, fs, backup_dir,
    result, outcome, caller_view>>
jalaliVars == <<greg, jalali>>
scanVars == <<scan_tree, scan_cfg, scan_todo, scan_visited, scan_yielded>>
\* the state of the components a run_backup call does not touch
readVars == <<read_file, read_max_kb, read_outputs, read_warned>>
writerVars ==
  <<n_files, n_selected, bw_pc, bw_src, bundle_entries, failed_reads>>
dirVars == <<engines, made_dirs, reused_dirs>>
configVars == <<requested, config_outcome>>
resolveVars == <<app_search_sets, search_set_ids, kw>>
windowVars == <<window, workers, signals>>
zipVars == <<zip_in, zip_st>>
hdrVars == <<hdr_cfg, hdr_files, hdr_sections, hdr_pc>>
ubVars == <<ub_in, ub>>
nbVars == <<nb_cfg, nb_paths>>
trVars == <<tr_in, tr_st>>
lateVars == <<zipVars, hdrVars, ubVars, nbVars, trVars>>
notZipVars == <<hdrVars, ubVars, nbVars, trVars>>
notHdrVars == <<zipVars, ubVars, nbVars, trVars>>
notUbVars == <<zipVars, hdrVars, nbVars, trVars>>
notNbVars == <<zipVars, hdrVars, ubVars, trVars>>
notTrVars == <<zipVars, hdrVars, ubVars, nbVars>>
otherVars ==
  <<jalaliVars, scanVars, readVars, writerVars, dirVars, configVars,
    resolveVars, windowVars, lateVars>>
\* the state of a BackupEngine and of get_current_time
runVars == <<inputVars, timeVars, engineVars, pc>>

(* ------------------------------ helpers -------------------------------- *)
Range(s) == {s[i] : i \in 1..Len(s)}

SeqsUpTo(S, n) == UNION {[1..m -> S] : m \in 0..n}

NoStats == [x \in {} |-> 0]

\* BackupResult(backup_root_path=None, is_dry_run=dry_run); finished stands
\* for finished_at / duration_seconds being set; time_source, which no step
\* reads, is not carried
EmptyResult ==
  [backup_root_path |-> "None", created_files |-> <<>>,
   created_directories |-> <<>>, zip_path |-> "None", stats |-> NoStats,
   finished |-> FALSE]

NoTimeResult == [kind |-> "none", source |-> "None"]

(* ------------------- run_backup: pure computations ---------------------- *)
IsAllowed(s) == s \in ALLOWED_STEPS

\* a filter that lets the root helper through
KeepsRootFiles(s) == TRUE
\* engine.py 179: s != "project_root_files"
NotRootFiles(s) == s # "project_root_files"

\* engine.py 172-179: unknown names dropped, root helper force-disabled
EffectiveSteps(raw, drop_root) ==
  LET known == SelectSeq(raw, IsAllowed)
  IN IF drop_root THEN SelectSeq(known, NotRootFiles) ELSE known

\* engine.py 173: invalid_steps
InvalidSteps(raw) == {raw[i] : i \in {j \in 1..Len(raw) : ~IsAllowed(raw[j])}}

\* engine.py 181-200: the phases list whose length is phase_total
Phases(steps, nozip) ==
  <<"Pre-checks">> \o [i \in 1..Len(steps) |-> step_to_label[steps[i]]]
    \o (IF nozip THEN <<>> ELSE <<"ZIP archive">>) \o <<"Summary">>

\* the `if` in front of step block b (engine.py 211, 229, ..., 399)
BlockGuard(b, steps, nsets) ==
  LET S == Range(steps) IN
  CASE Blocks[b] = "configs" -> "configs" \in S \/ "tsconfig_bundle" \in S
    [] Blocks[b] = "keyword_search" -> "keyword_search" \in S /\ nsets > 0
    [] OTHER -> Blocks[b] \in S

\* a label that tells dry runs apart
BlockLabelDryTagged(b, steps) ==
  IF b = ZipBlock THEN (IF dry_run THEN "ZIP archive (dry run)" ELSE "ZIP archive")
  ELSE IF b = SummaryBlock THEN "Summary"
  ELSE IF dry_run THEN "DRY RUN" ELSE step_to_label[Blocks[b]]

\* the label the block reports (engine.py 300 for the config block)
BlockLabel(b, steps) ==
  IF b = ZipBlock THEN "ZIP archive"
  ELSE IF b = SummaryBlock THEN "Summary"
  ELSE IF Blocks[b] = "configs"
       THEN (IF "configs" \in Range(steps) THEN step_to_label["configs"]
             ELSE step_to_label["tsconfig_bundle"])
  ELSE step_to_label[Blocks[b]]

\* name of the phase block b runs
BlockName(b) ==
  IF b = ZipBlock THEN "zip" ELSE IF b = SummaryBlock THEN "Summary"
  ELSE Blocks[b]

\* a dispatcher that walks the blocks from the bottom up
NextEnabledBottomUp(i, steps, nsets, nozip) ==
  LET cand == {b \in i..NumBlocks : BlockGuard(b, steps, nsets)}
  IN IF cand # {} THEN CHOOSE b \in cand : \A c \in cand : b >= c
     ELSE IF ~nozip /\ i <= ZipBlock THEN ZipBlock
     ELSE SummaryBlock

\* run_backup falls through its `if` blocks top to bottom: the first block
\* at or after position i whose guard holds, then ZIP (421), then Summary
NextEnabled(i, steps, nsets, nozip) ==
  LET cand == {b \in i..NumBlocks : BlockGuard(b, steps, nsets)}
  IN IF cand # {} THEN CHOOSE b \in cand : \A c \in cand : b <= c
     ELSE IF ~nozip /\ i <= ZipBlock THEN ZipBlock
     ELSE SummaryBlock

(* --------------------------- bundle writers ---------------------------- *)
AreaSeq == SelectSeq(DesignatedAreas, LAMBDA a : a \in ProjectAreas)

AreaFile(a, suffix) ==
  (CASE a = "apps/admin" -> "admin" [] a = "apps/api" -> "api"
     [] a = "apps/site" -> "site" [] OTHER -> "libs") \o suffix

\* trees.py generate_trees: one tree per existing area, then the two
\* whole-project trees
TreesOutputs ==
  [i \in 1..Len(AreaSeq) |-> AreaFile(AreaSeq[i], "_tree")]
    \o <<"tree", "tree_ts">>

\* code_bundles.py generate_full_text_bundles
CodeTxtOutputs ==
  [i \in 1..Len(AreaSeq) |-> AreaFile(AreaSeq[i], "_code")] \o <<"all_code">>

\* code_bundles.py generate_ts_bundles
TsBundlesOutputs == [i \in 1..Len(AreaSeq) |-> AreaFile(AreaSeq[i], "")]

\* code_bundles.py generate_full_ts_bundle
FullTsOutputs == <<"ts_full_bundle">>

\* configs.py generate_config_bundles
ConfigOutputs == <<"configs", "tsconfigs">>

\* api_bundles.py generate_api_bundles: one bundle per group of PATTERNS
ApiOutputs ==
  IF "apps/api" \in ProjectAreas
  THEN <<"api_services", "api_controllers", "api_entities", "api_dtos">>
  ELSE <<>>

\* paths.py generate_paths_files
PathsOutputs == <<"paths", "paths_ts">>

\* search.py run_search_sets: one Search_<id>.md per active search set
SearchOutputs(nactive) ==
  [i \in 1..nactive |-> "search/Search_" \o ToString(i)]

\* root_files.write_project_root_files, as run_backup uses it
\* (engine.py 403, 406-417)
RootFilesOutputs == <<"Tree.md", "AllCode_Backup.md">>

\* the output files the writer of block b produces, in the order it writes
\* them
Outputs(b, nactive) ==
  CASE b = ZipBlock -> <<"archive.zip">>
    [] b = SummaryBlock -> <<>>
    [] Blocks[b] = "trees" -> TreesOutputs
    [] Blocks[b] = "code_txt" -> CodeTxtOutputs
    [] Blocks[b] = "ts_tsx_md_bundles" -> TsBundlesOutputs
    [] Blocks[b] = "full_ts_tsx_bundle" -> FullTsOutputs
    [] Blocks[b] = "configs" -> ConfigOutputs
    [] Blocks[b] = "api_group_bundles" -> ApiOutputs
    [] Blocks[b] = "paths" -> PathsOutputs
    [] Blocks[b] = "keyword_search" -> SearchOutputs(nactive)
    [] Blocks[b] = "project_root_files" -> RootFilesOutputs

\* writers that open the output file before their per-file cancel check
OpensBeforeCheck(b) ==
  b <= NumBlocks /\
  Blocks[b] \in {"code_txt", "ts_tsx_md_bundles", "full_ts_tsx_bundle",
                 "configs", "api_group_bundles", "keyword_search"}

\* writers whose cancel check runs for every output, whatever the project
\* holds: their outputs exist only when source files do, or the check is
\* unconditional (paths.py 59, 70)
AlwaysChecks(b) ==
  b <= NumBlocks /\
  Blocks[b] \in {"code_txt", "ts_tsx_md_bundles", "full_ts_tsx_bundle",
                 "api_group_bundles", "paths"}

(* ------------------------------- Init ---------------------------------- *)
NoDate == <<0, 0, 0>>

\* no conversion has been asked for
JalaliIdle == greg = NoDate /\ jalali = NoDate

\* no scan has been asked for
\* Optional[Set[str]]: None, or a set of extensions
NoneExts == [is_none |-> TRUE, value |-> {}]
SomeExts(S) == [is_none |-> FALSE, value |-> S]
NoScanConfig ==
  [allowed_extensions |-> NoneExts, skip_dirs |-> {}, skip_files |-> {},
   skip_if_contains |-> <<>>]
ScanIdle ==
  /\ scan_tree = {} /\ scan_cfg = NoScanConfig /\ scan_todo = <<>>
  /\ scan_visited = {} /\ scan_yielded = {}

\* read_text_with_limit has not been called
NoFile == [size |-> 0, kind |-> "None"]
ReadIdle ==
  /\ read_file = NoFile /\ read_max_kb = 0
  /\ read_outputs = <<>> /\ read_warned = <<>>

\* no bundle writer is followed file by file
WriterIdle ==
  /\ n_files = 0 /\ n_selected = 0 /\ bw_pc = "off" /\ bw_src = 0
  /\ bundle_entries = <<>> /\ failed_reads = {}

\* no pair of engines is followed
DirsIdle == engines = <<>> /\ made_dirs = {} /\ reused_dirs = {}

\* no config file is being loaded
NoRequest == [source |-> "None", steps |-> <<>>]
ConfigIdle == requested = NoRequest /\ config_outcome = "none"

\* no keyword-search block is followed id by id
NoIds == [is_none |-> TRUE, value |-> <<>>]
SomeIds(q) == [is_none |-> FALSE, value |-> q]
NoKw ==
  [pc |-> "off", enabled |-> FALSE, dry_run |-> FALSE, entered |-> FALSE,
   active_sets |-> <<>>, warned |-> <<>>, processed |-> <<>>,
   stats |-> <<>>, exc |-> "none"]
ResolveIdle ==
  app_search_sets = <<>> /\ search_set_ids = NoIds /\ kw = NoKw

\* no window is open
\* _worker is an index into workers, 0 for None; ready: a config is loaded,
\* a project and a profile are selected
NoWindow == [worker |-> 0, busy |-> FALSE, ready |-> FALSE, log |-> {}]
WindowIdle == window = NoWindow /\ workers = <<>> /\ signals = <<>>

\* create_zip has not been called
NoZipIn == [parent |-> <<>>, name |-> "None", output_dir |-> <<>>,
            files |-> {}, empty_dirs |-> {}]
NoZipSt == [pc |-> "off", todo |-> <<>>, archive_path |-> <<>>,
            entries |-> {}, made |-> {}]
ZipIdle == zip_in = NoZipIn /\ zip_st = NoZipSt

\* no bundle writer is followed header by header
NoCustom == [is_none |-> TRUE, value |-> <<>>]
SomeCustom(f) == [is_none |-> FALSE, value |-> f]
NoOutputConfig ==
  [format |-> "None", separator_style |-> "None", custom_separator |-> NoCustom]
HdrIdle ==
  /\ hdr_cfg = NoOutputConfig /\ hdr_files = {} /\ hdr_sections = <<>>
  /\ hdr_pc = "off"

\* run_universal_backup has not been called
NoUbIn == [split_by_folder |-> FALSE, folders |-> <<>>]
NoUb ==
  [pc |-> "off", cancelled |-> FALSE, signalled |-> "None", scanned |-> 0,
   g |-> 0, i |-> 0, output_files_created |-> 0, files_included |-> 0,
   outcome |-> "none"]
UbIdle == ub_in = NoUbIn /\ ub = NoUb

\* no filename builder has been built
NoNameConfig == [dynamic_names |-> FALSE, name_template |-> <<>>]
NbIdle == nb_cfg = NoNameConfig /\ nb_paths = {}

\* generate_trees has not been called
NoTrIn == [files |-> {}, empty_dirs |-> {}, cancel_event |-> FALSE]
NoTrSt == [pc |-> "idle", k |-> 0, files_written |-> 0, written |-> {}]
TrIdle == tr_in = NoTrIn /\ tr_st = NoTrSt

LateIdle == ZipIdle /\ HdrIdle /\ UbIdle /\ NbIdle /\ TrIdle
NotZipIdle == HdrIdle /\ UbIdle /\ NbIdle /\ TrIdle
NotHdrIdle == ZipIdle /\ UbIdle /\ NbIdle /\ TrIdle
NotUbIdle == ZipIdle /\ HdrIdle /\ NbIdle /\ TrIdle
NotNbIdle == ZipIdle /\ HdrIdle /\ UbIdle /\ TrIdle
NotTrIdle == ZipIdle /\ HdrIdle /\ UbIdle /\ NbIdle

OthersIdle ==
  /\ JalaliIdle /\ ScanIdle /\ ReadIdle /\ WriterIdle /\ DirsIdle
  /\ ConfigIdle /\ ResolveIdle /\ WindowIdle /\ LateIdle

\* a BackupEngine has been constructed for a project and a profile; the
\* arguments of the coming run_backup call are fixed
Init ==
  /\ dry_run \in BOOLEAN
  /\ skip_zip \in BOOLEAN
  /\ raw_steps \in SeqsUpTo(ALLOWED_STEPS \cup {UnknownStep}, MaxSteps)
  \* app_config.search_sets is read only when keyword_search is requested
  /\ search_sets \in
       (IF "keyword_search" \in Range(raw_steps) THEN 0..MaxSearchSets ELSE {0})
  \* the root-helper switch is read only to filter project_root_files
  /\ drop_root_files \in
       (IF "project_root_files" \in Range(raw_steps) THEN BOOLEAN ELSE {FALSE})
  /\ run_no = 1
  /\ prev_progress = <<>>
  /\ include_steps = <<>>
  /\ phase_total = 0
  /\ phase_index = 0
  /\ active_sets = 0
  /\ pc = "idle"
  /\ blk = 0
  /\ out_k = 0
  /\ cancel_event = FALSE
  /\ exc = "none"
  /\ progress = <<>>
  /\ trace = <<>>
  /\ warned = {}
  /\ logged = {}
  /\ fs = {}
  /\ backup_dir = "None"
  /\ result = EmptyResult
  /\ outcome = "none"
  /\ caller_view = [kind |-> "none"]
  /\ caller = "engine"
  /\ tz = "None"
  /\ use_network_time = FALSE
  /\ queries = <<>>
  /\ time_result = NoTimeResult
  /\ OthersIdle

(* ------------------------- exception plumbing -------------------------- *)
\* an exception that is noted but does not leave the current statement
RaiseAndGoOn(kind) == pc' = pc /\ exc' = kind

\* an exception of the given type leaves the current statement
Raise(kind) == pc' = "except" /\ exc' = kind

\* a checkpoint that is blind to the flag in a dry run
check_cancelled_real_only == cancel_event /\ ~dry_run

\* BackupEngine._check_cancelled (engine.py 88-90) raises
check_cancelled == cancel_event

\* a checkpoint followed by the statement at `next`
CheckCancelledThen(next) ==
  IF check_cancelled THEN Raise("BackupCancelled")
  ELSE pc' = next /\ exc' = exc

\* BackupEngine.cancel (engine.py 85-86), called from another thread
Cancel ==
  /\ caller = "engine"
  /\ pc \notin {"done", "failed"}
  /\ ~cancel_event
  /\ cancel_event' = TRUE
  /\ UNCHANGED <<otherVars, inputVars, timeVars, search_sets, include_steps, phase_total,
                 phase_index, active_sets, pc, blk, out_k, exc, progress,
                 trace, warned, logged, fs, backup_dir, result, outcome,
                 caller_view>>

(* --------------------------- pre-checks -------------------------------- *)
\* run_backup 157-207 and _phase_prechecks 470-471
Start ==
  /\ pc = "idle" /\ caller = "engine"
  /\ LET steps == EffectiveSteps(raw_steps, drop_root_files)
         total == Len(Phases(steps, skip_zip))
     IN /\ include_steps' = steps
        /\ phase_total' = total
        /\ progress' = Append(progress, <<1, total, "Pre-checks">>)
  /\ warned' = IF InvalidSteps(raw_steps) # {}
               THEN warned \cup {"Ignoring unknown include_steps"} ELSE warned
  /\ trace' = Append(trace, <<"begin", "Pre-checks">>)
  /\ logged' = logged \cup {"PRECHECK"}
  /\ result' = EmptyResult
  /\ CheckCancelledThen("pre_root")
  /\ UNCHANGED <<otherVars, inputVars, timeVars, search_sets, phase_index, active_sets,
                 blk, out_k, cancel_event, fs, backup_dir, outcome,
                 caller_view>>

\* _phase_prechecks 473-474
PreRoot ==
  /\ pc = "pre_root"
  /\ \E root_is_dir \in BOOLEAN :
       IF root_is_dir THEN pc' = "pre_backup_root" /\ exc' = exc
       ELSE Raise("BackupConfigError")
  /\ UNCHANGED <<otherVars, inputVars, timeVars, search_sets, include_steps, phase_total,
                 phase_index, active_sets, blk, out_k, cancel_event, progress,
                 trace, warned, logged, fs, backup_dir, result, outcome,
                 caller_view>>

\* a directory check that creates the missing directory in a dry run too
EnsureDirEvenDry(path, next) ==
  \E found \in {"missing", "dir", "file"} :
    /\ logged' = logged
    /\ CASE found = "dir" -> pc' = next /\ exc' = exc /\ fs' = fs
         [] found = "file" -> Raise("BackupConfigError") /\ fs' = fs
         [] found = "missing" ->
              pc' = next /\ exc' = exc /\ fs' = fs \cup {path}

\* the directory check shared by 476-483 (backup root) and 485-493 (ZIP dir)
EnsureDir(path, next) ==
  \E found \in {"missing", "dir", "file"} :
    CASE found = "dir" ->
           pc' = next /\ exc' = exc /\ fs' = fs /\ logged' = logged
      [] found = "file" ->
           Raise("BackupConfigError") /\ fs' = fs /\ logged' = logged
      [] found = "missing" ->
           IF dry_run
           THEN /\ pc' = next /\ exc' = exc /\ fs' = fs
                /\ logged' = logged \cup {"DRY RUN: would create " \o path}
           ELSE /\ logged' = logged
                /\ \E io_ok \in BOOLEAN :
                     IF io_ok
                     THEN pc' = next /\ exc' = exc /\ fs' = fs \cup {path}
                     ELSE Raise("OSError") /\ fs' = fs

\* _phase_prechecks 476-483
PreBackupRoot ==
  /\ pc = "pre_backup_root"
  /\ EnsureDir("backup_root", IF skip_zip THEN "pre_time" ELSE "pre_zip_dir")
  /\ UNCHANGED <<otherVars, inputVars, timeVars, search_sets, include_steps, phase_total,
                 phase_index, active_sets, blk, out_k, cancel_event, progress,
                 trace, warned, backup_dir, result, outcome, caller_view>>

\* _phase_prechecks 485-493
PreZipDir ==
  /\ pc = "pre_zip_dir"
  /\ EnsureDir("zip_output_dir", "pre_time")
  /\ UNCHANGED <<otherVars, inputVars, timeVars, search_sets, include_steps, phase_total,
                 phase_index, active_sets, blk, out_k, cancel_event, progress,
                 trace, warned, backup_dir, result, outcome, caller_view>>

\* _phase_prechecks 495-496: the call of get_current_time
PreTime ==
  /\ pc = "pre_time"
  /\ tz' \in EngineZones
  /\ use_network_time' \in BOOLEAN
  /\ pc' = "time_zone"
  /\ UNCHANGED <<otherVars, inputVars, engineVars, queries, time_result>>

(* ------------------------- get_current_time --------------------------- *)
\* a resolver that reports every answer as the system clock's
TimeReturnSystemTag(src) ==
  /\ time_result' = [kind |-> "returned", source |-> "system"]
  /\ pc' = IF caller = "engine" THEN "time_ret" ELSE "time_done"

\* get_current_time hands back a TimeResult (time_utils.py 95, 99)
TimeReturn(src) ==
  /\ time_result' = [kind |-> "returned", source |-> src]
  /\ pc' = IF caller = "engine" THEN "time_ret" ELSE "time_done"

\* time_utils.py 89-91: tz = ZoneInfo(timezone_name), outside any try
TimeZoneInfo ==
  /\ pc = "time_zone"
  /\ IF ValidZone(tz)
     THEN /\ pc' = IF use_network_time THEN "time_net" ELSE "time_sys"
          /\ UNCHANGED <<exc, time_result>>
     ELSE IF caller = "engine"
          THEN Raise("ZoneInfoNotFoundError") /\ UNCHANGED time_result
          ELSE /\ pc' = "time_done"
               /\ time_result' = [kind |-> "raised", source |-> "None"]
               /\ UNCHANGED exc
  /\ UNCHANGED <<otherVars, inputVars, tz, use_network_time, queries, search_sets, include_steps, phase_total, phase_index,
                 active_sets, blk, out_k, cancel_event, progress, trace,
                 warned, logged, fs, backup_dir, result, outcome, caller_view>>

\* time_utils.py 92-95: one turn of the loop over the getters; a getter
\* (28-76) turns every failure into None
TimeQuery ==
  /\ pc = "time_net"
  /\ Len(queries) < Len(NetworkSources)
  /\ LET src == NetworkSources[Len(queries) + 1] IN
     \E o \in SourceOutcomes(src) :
       /\ queries' = Append(queries, [source |-> src, ok |-> (o = "ok")])
       /\ IF o = "ok"
          THEN TimeReturn(src)
          ELSE /\ pc' = IF Len(queries') = Len(NetworkSources)
                        THEN "time_sys" ELSE "time_net"
               /\ time_result' = time_result
  /\ UNCHANGED <<otherVars, inputVars, engineVars, tz, use_network_time>>

\* time_utils.py 97-99: fallback to the system clock
TimeSystem ==
  /\ pc = "time_sys"
  /\ TimeReturn("system")
  /\ UNCHANGED <<otherVars, inputVars, engineVars, tz, use_network_time, queries>>

\* _phase_prechecks 496-499: the TimeResult comes back to the engine
PreTimeReturn ==
  /\ pc = "time_ret"
  /\ time_result.kind = "returned"
  /\ tz' = "None"
  /\ use_network_time' = FALSE
  /\ queries' = <<>>
  /\ time_result' = NoTimeResult
  /\ pc' = "pre_backup_dir"
  /\ UNCHANGED <<otherVars, inputVars, search_sets, include_steps, phase_total,
                 phase_index, active_sets, blk, out_k, cancel_event, exc,
                 progress, trace, warned, logged, fs, backup_dir, result,
                 outcome, caller_view>>

\* _phase_prechecks 501-511: name and create the backup directory
PreBackupDir ==
  /\ pc = "pre_backup_dir"
  /\ backup_dir' = "Backup-stamp"
  /\ IF dry_run
     THEN /\ result' = [result EXCEPT !.backup_root_path = "Backup-stamp"]
          /\ pc' = "pre_note" /\ UNCHANGED <<exc, fs>>
     ELSE \E io_ok \in BOOLEAN :
            IF io_ok
            THEN /\ fs' = fs \cup {"Backup-stamp"}
                 /\ result' =
                      [result EXCEPT
                         !.backup_root_path = "Backup-stamp",
                         !.created_directories = Append(@, "Backup-stamp")]
                 /\ pc' = "pre_note" /\ exc' = exc
            ELSE /\ result' =
                      [result EXCEPT !.backup_root_path = "Backup-stamp"]
                 /\ Raise("OSError") /\ fs' = fs
  /\ UNCHANGED <<otherVars, inputVars, timeVars, search_sets, include_steps, phase_total,
                 phase_index, active_sets, blk, out_k, cancel_event, progress,
                 trace, warned, logged, outcome, caller_view>>

\* _phase_prechecks 513-523 with _write_backup_note 525-571, then
\* run_backup 209 and the fall-through to the first enabled block
PreNote ==
  /\ pc = "pre_note"
  /\ \E has_note \in BOOLEAN :
       IF has_note /\ ~dry_run
       THEN \E io_ok \in BOOLEAN :
              IF io_ok
              THEN /\ fs' = fs \cup {"backup_note"}
                   /\ result' =
                        [result EXCEPT
                           !.created_files = Append(@, "backup_note")]
                   /\ pc' = "step" /\ exc' = exc
              ELSE Raise("OSError") /\ UNCHANGED <<fs, result>>
       ELSE pc' = "step" /\ UNCHANGED <<exc, fs, result>>
  /\ IF pc' = "step"
     THEN /\ trace' = Append(trace, <<"end", "Pre-checks">>)
          /\ phase_index' = 2
          /\ blk' = NextEnabled(1, include_steps, search_sets, skip_zip)
     ELSE UNCHANGED <<trace, phase_index, blk>>
  /\ UNCHANGED <<otherVars, inputVars, timeVars, search_sets, include_steps, phase_total,
                 active_sets, out_k, cancel_event, progress, warned, logged,
                 backup_dir, outcome, caller_view>>

(* ------------------------- what a scan yields -------------------------- *)
\* how the names of the scanned trees are spelled
Spell ==
  ("a.ts" :> <<"a", ".", "t", "s">>)
    @@ ("b.test.ts" :> <<"b", ".", "t", "e", "s", "t", ".", "t", "s">>)
    @@ ("c.ts" :> <<"c", ".", "t", "s">>)
    @@ ("d.tsx" :> <<"d", ".", "t", "s", "x">>)
    @@ ("README.md" :> <<"R", "E", "A", "D", "M", "E", ".", "m", "d">>)
    @@ (".ts" :> <<".", "t", "s">>)
    @@ ("dist" :> <<"d", "i", "s", "t">>)
    @@ ("src" :> <<"s", "r", "c">>)
    @@ ("node_modules" :>
          <<"n", "o", "d", "e", "_", "m", "o", "d", "u", "l", "e", "s">>)

\* the files a scanned tree can hold; directories are the proper prefixes.
\* <<"src", "dist">> is a regular file named like a skipped directory.
TreeFiles ==
  {<<"a.ts">>, <<"b.test.ts">>, <<"node_modules", "c.ts">>, <<"README.md">>,
   <<".ts">>, <<"src", "d.tsx">>, <<"src", "node_modules", "c.ts">>,
   <<"src", "dist">>, <<"dist", "src", "a.ts">>}

\* the ScanConfig values: scanning.py 45-51 with subsets of the defaults
\* (10-42), and the TS extensions of trees.py 42 / code_bundles.py
TsExtensions == {<<".", "t", "s">>, <<".", "t", "s", "x">>}
ScanConfigs ==
  [allowed_extensions : {NoneExts, SomeExts(TsExtensions)},
   skip_dirs : {{}, {"node_modules", "dist"}},
   skip_files : {{}, {"README.md"}},
   skip_if_contains : {<<>>, <<<<".", "t", "e", "s", "t", ".">>>>}]

\* `pattern in filename` (scanning.py 72)
IsInfix(p, t) ==
  \E i \in 0..(Len(t) - Len(p)) : SubSeq(t, i + 1, i + Len(p)) = p

\* pathlib: PurePath.suffix of a path whose last component is `name`
PathSuffix(name) ==
  LET t == Spell[name]
      dots == {i \in 1..Len(t) : t[i] = "."}
  IN IF dots = {} THEN <<>>
     ELSE LET i == CHOOSE d \in dots : \A e \in dots : e <= d
          IN IF 1 < i /\ i < Len(t) THEN SubSeq(t, i, Len(t)) ELSE <<>>

\* scanning.py 70-77: the three `continue` tests of the file loop
YieldsFile(cfg, filename) ==
  /\ filename \notin cfg.skip_files
  /\ ~\E k \in 1..Len(cfg.skip_if_contains) :
        IsInfix(cfg.skip_if_contains[k], Spell[filename])
  /\ ~cfg.allowed_extensions.is_none
       => PathSuffix(filename) \in cfg.allowed_extensions.value

\* one path lies under another
IsPrefix(d, q) == Len(d) <= Len(q) /\ SubSeq(q, 1, Len(d)) = d

\* the files a project can hold, and directories it can hold empty
TrFiles ==
  {<<"apps", "api", "a.ts">>, <<"apps", "api", "node_modules", "c.ts">>,
   <<"libs", "d.tsx">>, <<"a.ts">>, <<"README.md">>}
TrEmptyDirs == {<<"apps", "site">>, <<"libs">>}

\* Path.is_dir: a directory kept empty or one above a file
TrIsDir(p, root) ==
  \/ \E q \in p.files : Len(q) > Len(root) /\ IsPrefix(root, q)
  \/ \E d \in p.empty_dirs : IsPrefix(root, d)

\* trees.py 40-43: ScanConfig(root, allowed_extensions) with the defaults
\* of scanning.py 8-51 for the rest
TreeScanConfig(ts_only) ==
  [allowed_extensions |-> IF ts_only THEN SomeExts(TsExtensions) ELSE NoneExts,
   skip_dirs |-> {"node_modules", "dist"},
   skip_files |-> {"README.md"},
   skip_if_contains |-> <<<<".", "t", "e", "s", "t", ".">>>>]

\* everything iter_files yields for a root (scanning.py 59-77): the files
\* below it with no skipped directory on the way that pass the file tests
IterFilesUnder(cfg, tree, root) ==
  {q \in tree :
     /\ Len(q) > Len(root) /\ IsPrefix(root, q)
     /\ \A i \in (Len(root) + 1)..(Len(q) - 1) : q[i] \notin cfg.skip_dirs
     /\ YieldsFile(cfg, q[Len(q)])}

\* trees.py 83-88, 102-118: the trees in the order generate_trees takes them
TreeCalls ==
  <<[root |-> <<"apps", "admin">>, name |-> "admin_tree", ts_only |-> FALSE],
    [root |-> <<"apps", "api">>, name |-> "api_tree", ts_only |-> FALSE],
    [root |-> <<"apps", "site">>, name |-> "site_tree", ts_only |-> FALSE],
    [root |-> <<"libs">>, name |-> "libs_tree", ts_only |-> FALSE],
    [root |-> <<>>, name |-> "tree", ts_only |-> FALSE],
    [root |-> <<>>, name |-> "tree_ts", ts_only |-> TRUE]>>
NumAreaTrees == 4

\* trees.py 33-70: what _write_tree returns
write_tree(p, call) ==
  Cardinality(IterFilesUnder(TreeScanConfig(call.ts_only), p.files, call.root))

\* the files of the project under backup: each existing area and the
\* project root hold a source file
ProjectTree ==
  [files |-> {<<"apps", "api", "a.ts">>, <<"libs", "d.tsx">>, <<"a.ts">>},
   empty_dirs |-> {}, cancel_event |-> FALSE]

\* trees.py 90-118: the sum generate_trees keeps in stats.files_written
RECURSIVE TreesListedFrom(_, _)
TreesListedFrom(p, k) ==
  IF k > Len(TreeCalls) THEN 0
  ELSE (IF k > NumAreaTrees \/ TrIsDir(p, TreeCalls[k].root)
        THEN write_tree(p, TreeCalls[k]) ELSE 0) + TreesListedFrom(p, k + 1)

(* ----------------------------- the steps ------------------------------- *)
Planned(n) == [kind |-> "planned", n |-> n]
Executed(kind, n) == [kind |-> kind, n |-> n]

\* the statistics a dry-run block records (engine.py 216, 234, ..., 426)
DryStats(b, nactive, stats) ==
  IF b = ZipBlock THEN ("zip" :> Planned(1)) @@ stats
  ELSE IF Blocks[b] = "keyword_search"
       THEN ("keyword_search" :> Planned(nactive)) @@ stats
  ELSE (Blocks[b] :> Planned(1)) @@ stats

\* the statistics a real block records once its writer has returned
\* (engine.py 225, 246, 269, 292, 316-324, 344, 365, 393, 414)
RealStats(b, nactive, stats) ==
  LET n == Len(Outputs(b, nactive)) IN
  IF Blocks[b] = "configs"
  THEN ("configs" :> Executed("files_written", n))
         @@ ("tsconfig_bundle" :> Executed("files_written", 1)) @@ stats
  ELSE IF Blocks[b] = "keyword_search"
       THEN ("keyword_search" :> Executed("matches_per_set", nactive)) @@ stats
  ELSE IF Blocks[b] = "trees"
       THEN ("trees" :> Executed("files_written", TreesListedFrom(ProjectTree, 1)))
              @@ stats
  ELSE (Blocks[b] :> Executed("files_written", n)) @@ stats

\* phase_index += 1 and the fall-through to the next enabled block
Advance ==
  /\ phase_index' = phase_index + 1
  /\ trace' = Append(trace, <<"end", BlockName(blk)>>)
  /\ blk' = NextEnabled(blk + 1, include_steps, search_sets, skip_zip)
  /\ pc' = "step"
  /\ out_k' = 0

\* the head of a step block or of the ZIP block: _emit_progress, then
\* _check_cancelled (engine.py 212-213, ..., 400-401, 422-423); the search
\* block also resolves its search sets (376)
BeginStep ==
  /\ pc = "step" /\ blk <= ZipBlock
  /\ progress' =
       Append(progress, <<phase_index, phase_total, BlockLabel(blk, include_steps)>>)
  /\ trace' = Append(trace, <<"begin", BlockName(blk)>>)
  /\ IF check_cancelled
     THEN Raise("BackupCancelled") /\ UNCHANGED <<active_sets, out_k>>
     ELSE /\ pc' = "body" /\ exc' = exc /\ out_k' = 1
          /\ IF blk <= NumBlocks /\ Blocks[blk] = "keyword_search"
             THEN active_sets' \in 0..search_sets
             ELSE active_sets' = active_sets
  /\ UNCHANGED <<otherVars, inputVars, timeVars, search_sets, include_steps, phase_total,
                 phase_index, blk, cancel_event, warned, logged, fs,
                 backup_dir, result, outcome, caller_view>>

\* the dry-run branch of a block (engine.py 214-216, ..., 424-426)
DryStep ==
  /\ pc = "body" /\ dry_run
  /\ logged' = logged \cup {"DRY RUN: " \o BlockName(blk)}
  /\ result' = [result EXCEPT !.stats = DryStats(blk, active_sets, @)]
  /\ Advance
  /\ UNCHANGED <<otherVars, inputVars, timeVars, search_sets, include_steps, phase_total,
                 active_sets, cancel_event, exc, progress, warned, fs,
                 backup_dir, outcome, caller_view>>

\* one output file of a bundle writer in a real run: the writer meets its
\* cancel check, or an I/O error, or writes the file
WriterStep ==
  /\ pc = "body" /\ ~dry_run /\ blk <= NumBlocks
  /\ out_k <= Len(Outputs(blk, active_sets))
  /\ LET f == Outputs(blk, active_sets)[out_k] IN
     \/ /\ check_cancelled
        /\ fs' = IF OpensBeforeCheck(blk) THEN fs \cup {f} ELSE fs
        /\ Raise("BackupCancelled")
        /\ out_k' = out_k
     \/ /\ ~check_cancelled \/ ~AlwaysChecks(blk)
        /\ \E io_ok \in BOOLEAN :
             IF io_ok
             THEN fs' = fs \cup {f} /\ out_k' = out_k + 1
                  /\ UNCHANGED <<pc, exc>>
             ELSE /\ Raise("OSError") /\ out_k' = out_k
                  /\ \E opened \in BOOLEAN :
                       fs' = IF opened /\ OpensBeforeCheck(blk)
                             THEN fs \cup {f} ELSE fs
  /\ UNCHANGED <<otherVars, inputVars, timeVars, search_sets, include_steps, phase_total,
                 phase_index, active_sets, blk, cancel_event, progress, trace,
                 warned, logged, backup_dir, result, outcome, caller_view>>

\* the writer has returned: the block records its statistics
FinishStep ==
  /\ pc = "body" /\ ~dry_run /\ blk <= NumBlocks
  /\ out_k > Len(Outputs(blk, active_sets))
  /\ result' =
       [result EXCEPT
          !.stats = RealStats(blk, active_sets, @),
          !.created_files =
             IF Blocks[blk] = "project_root_files"
             THEN @ \o Outputs(blk, active_sets) ELSE @]
  /\ Advance
  /\ UNCHANGED <<otherVars, inputVars, timeVars, search_sets, include_steps, phase_total,
                 active_sets, cancel_event, exc, progress, warned, logged, fs,
                 backup_dir, outcome, caller_view>>

\* the real branch of the ZIP block (engine.py 428-435, zipper.py 17-36)
ZipStep ==
  /\ pc = "body" /\ ~dry_run /\ blk = ZipBlock
  /\ \E io_ok \in BOOLEAN :
       IF io_ok
       THEN /\ fs' = fs \cup {"archive.zip"}
            /\ result' =
                 [result EXCEPT
                    !.zip_path = "archive.zip",
                    !.stats = ("zip" :> Executed("created", 1)) @@ @]
            /\ Advance /\ exc' = exc
       ELSE /\ Raise("OSError")
            /\ UNCHANGED <<fs, result, phase_index, trace, blk, out_k>>
  /\ UNCHANGED <<otherVars, inputVars, timeVars, search_sets, include_steps, phase_total,
                 active_sets, cancel_event, progress, warned, logged,
                 backup_dir, outcome, caller_view>>

\* engine.py 437-443, the finally clause 452-454 and the return 456
Summary ==
  /\ pc = "step" /\ blk = SummaryBlock
  /\ progress' = Append(progress, <<phase_index, phase_total, "Summary">>)
  /\ trace' = trace \o <<(<<"begin", "Summary">>), (<<"end", "Summary">>)>>
  /\ logged' = logged \cup {"SUMMARY"}
  /\ result' = [result EXCEPT !.finished = TRUE]
  /\ outcome' = "returned"
  /\ caller_view' = [kind |-> "result", value |-> result']
  /\ pc' = "done"
  /\ UNCHANGED <<otherVars, inputVars, timeVars, search_sets, include_steps, phase_total,
                 phase_index, active_sets, blk, out_k, cancel_event, exc,
                 warned, fs, backup_dir>>

\* except clauses without the BackupCancelled arm
ClassifyNoCancelArm(kind) ==
  IF kind = "BackupConfigError" THEN "BackupConfigError" ELSE "BackupIOError"

\* the except clauses and the finally clause (engine.py 445-454): the
\* exception leaves run_backup, the caller holds the exception only
Classify(kind) ==
  IF kind = "BackupCancelled" THEN "BackupCancelled"
  ELSE IF kind = "BackupConfigError" THEN "BackupConfigError"
  ELSE "BackupIOError"

Handle ==
  /\ pc = "except"
  /\ logged' = IF exc = "BackupCancelled" THEN logged \cup {"CANCEL"} ELSE logged
  /\ outcome' = Classify(exc)
  /\ result' = [result EXCEPT !.finished = TRUE]
  /\ caller_view' = [kind |-> "exception", type |-> Classify(exc), message |-> exc]
  /\ pc' = "failed"
  /\ UNCHANGED <<otherVars, inputVars, timeVars, search_sets, include_steps, phase_total,
                 phase_index, active_sets, blk, out_k, cancel_event, exc,
                 progress, trace, warned, fs, backup_dir>>

(* ---------------------------- specifications --------------------------- *)
TimeNext == TimeZoneInfo \/ TimeQuery \/ TimeSystem

Next ==
  \/ Cancel \/ Start \/ PreRoot \/ PreBackupRoot \/ PreZipDir \/ PreTime
  \/ TimeZoneInfo \/ TimeQuery \/ TimeSystem
  \/ PreTimeReturn \/ PreBackupDir \/ PreNote
  \/ BeginStep \/ DryStep \/ WriterStep \/ FinishStep \/ ZipStep
  \/ Summary \/ Handle

Spec == Init /\ [][Next]_vars

\* get_current_time called on its own
InitTime ==
  /\ dry_run = FALSE /\ skip_zip = FALSE /\ raw_steps = <<>>
  /\ drop_root_files = FALSE /\ run_no = 1 /\ prev_progress = <<>>
  /\ search_sets = 0 /\ include_steps = <<>>
  /\ phase_total = 0 /\ phase_index = 0 /\ active_sets = 0
  /\ blk = 0 /\ out_k = 0 /\ cancel_event = FALSE /\ exc = "none"
  /\ progress = <<>> /\ trace = <<>> /\ warned = {} /\ logged = {}
  /\ fs = {} /\ backup_dir = "None" /\ result = EmptyResult
  /\ outcome = "none" /\ caller_view = [kind |-> "none"]
  /\ caller = "direct"
  /\ pc = "time_zone"
  /\ tz \in TimeZones
  /\ use_network_time \in BOOLEAN
  /\ queries = <<>>
  /\ time_result = NoTimeResult
  /\ OthersIdle

SpecTime == InitTime /\ [][TimeNext]_vars

\* The same run_backup call made twice on fresh engines for the same
\* project, profile and arguments, once dry and once real: after the first
\* run has returned, a new BackupEngine (engine.py 48-67) is constructed
\* and run with dry_run flipped.
RunAgain ==
  /\ pc = "done" /\ run_no = 1
  /\ run_no' = 2
  /\ prev_progress' = progress
  /\ dry_run' = ~dry_run
  /\ include_steps' = <<>> /\ phase_total' = 0 /\ phase_index' = 0
  /\ active_sets' = 0 /\ pc' = "idle" /\ blk' = 0 /\ out_k' = 0
  /\ cancel_event' = FALSE /\ exc' = "none" /\ progress' = <<>>
  /\ trace' = <<>> /\ warned' = {} /\ logged' = {} /\ fs' = {}
  /\ backup_dir' = "None" /\ result' = EmptyResult /\ outcome' = "none"
  /\ caller_view' = [kind |-> "none"]
  /\ UNCHANGED <<skip_zip, raw_steps, drop_root_files, search_sets, caller,
                 timeVars, otherVars>>

NextPair == Next \/ RunAgain

SpecPair == Init /\ [][NextPair]_vars

\* no BackupEngine is involved: every variable of run_backup and of
\* get_current_time rests at its construction value
EngineIdle ==
  /\ dry_run = FALSE /\ skip_zip = FALSE /\ raw_steps = <<>>
  /\ drop_root_files = FALSE /\ run_no = 1 /\ prev_progress = <<>>
  /\ search_sets = 0 /\ include_steps = <<>>
  /\ phase_total = 0 /\ phase_index = 0 /\ active_sets = 0
  /\ blk = 0 /\ out_k = 0 /\ cancel_event = FALSE /\ exc = "none"
  /\ progress = <<>> /\ trace = <<>> /\ warned = {} /\ logged = {}
  /\ fs = {} /\ backup_dir = "None" /\ result = EmptyResult
  /\ outcome = "none" /\ caller_view = [kind |-> "none"]
  /\ caller = "direct" /\ pc = "off"
  /\ tz = "None" /\ use_network_time = FALSE /\ queries = <<>>
  /\ time_result = NoTimeResult

(* ------------------------ gregorian_to_jalali -------------------------- *)
\* jalali.py 28: g_days_in_month
g_days_in_month == <<31, 28, 31, 30, 31, 30, 31, 31, 30, 31, 30, 31>>

\* jalali.py 52: jalali_months
jalali_months == <<31, 31, 31, 31, 31, 31, 30, 30, 30, 30, 30, 29>>

\* jalali.py 29-30: the days of the months before month index gm
RECURSIVE GDaysBefore(_)
GDaysBefore(gm) ==
  IF gm = 0 THEN 0 ELSE GDaysBefore(gm - 1) + g_days_in_month[gm]

\* jalali.py 50-58: the loop over jalali_months; jm and jd keep their
\* initial 0 when no month takes the day
RECURSIVE JalaliMonthLoop(_, _)
JalaliMonthLoop(i, j_day_no) ==
  IF i > Len(jalali_months) THEN <<0, 0>>
  ELSE IF j_day_no < jalali_months[i] THEN <<i, j_day_no + 1>>
  ELSE JalaliMonthLoop(i + 1, j_day_no - jalali_months[i])

\* jalali.py 14-60
gregorian_to_jalali(dt) ==
  LET gy == dt[1] - 1600
      gm == dt[2] - 1
      gd == dt[3] - 1
      leap == IF gm > 1 /\ ((gy % 4 = 0 /\ gy % 100 # 0) \/ gy % 400 = 0)
              THEN 1 ELSE 0
      g_day_no == 365 * gy + ((gy + 3) \div 4) - ((gy + 99) \div 100)
                    + ((gy + 399) \div 400) + GDaysBefore(gm) + leap + gd
      j0 == g_day_no - 79
      j_np == j0 \div 12053
      j1 == j0 % 12053
      jy0 == 979 + 33 * j_np + 4 * (j1 \div 1461)
      j2 == j1 % 1461
      jy == IF j2 >= 366 THEN jy0 + ((j2 - 1) \div 365) ELSE jy0
      j3 == IF j2 >= 366 THEN (j2 - 1) % 365 ELSE j2
      md == JalaliMonthLoop(1, j3)
  IN <<jy, md[1], md[2]>>

\* datetime: the proleptic Gregorian calendar the argument lives in
GregLeap(y) == (y % 4 = 0 /\ y % 100 # 0) \/ y % 400 = 0
GregMonthLen(y, m) ==
  IF m = 2 /\ GregLeap(y) THEN 29 ELSE g_days_in_month[m]
NextGreg(dt) ==
  IF dt[3] < GregMonthLen(dt[1], dt[2]) THEN <<dt[1], dt[2], dt[3] + 1>>
  ELSE IF dt[2] < 12 THEN <<dt[1], dt[2] + 1, 1>>
  ELSE <<dt[1] + 1, 1, 1>>

\* the first datetime converted
FirstGreg == <<2024, 3, 20>>

\* the conversions stop with the last day of this Gregorian year
LastGregYear == 2025

\* the converter is called on one day
InitJalali ==
  /\ EngineIdle /\ ScanIdle /\ ReadIdle /\ WriterIdle /\ DirsIdle
  /\ ConfigIdle /\ ResolveIdle /\ WindowIdle /\ LateIdle
  /\ greg = FirstGreg
  /\ jalali = gregorian_to_jalali(FirstGreg)

\* the converter is called on the following day
ConvertNextDay ==
  /\ NextGreg(greg)[1] <= LastGregYear
  /\ greg' = NextGreg(greg)
  /\ jalali' = gregorian_to_jalali(greg')
  /\ UNCHANGED <<runVars, scanVars, readVars, writerVars, dirVars, configVars,
               resolveVars, windowVars, lateVars>>

SpecJalali == InitJalali /\ [][ConvertNextDay]_vars

(* ------------------------------ iter_files ----------------------------- *)
\* most files in a scanned tree
MaxTreeFiles == 3

\* os.walk: filenames and dirnames of one directory of the tree
Filenames(tree, d) == {q \in tree : Len(q) = Len(d) + 1 /\ IsPrefix(d, q)}
Dirnames(tree, d) ==
  {SubSeq(q, 1, Len(d) + 1) : q \in {r \in tree : Len(r) > Len(d) + 1 /\ IsPrefix(d, r)}}

\* a directory listing that keeps every sub-directory
KeptDirsUnpruned(cfg, tree, d) == Dirnames(tree, d)

\* scanning.py 64-66: dirnames[:] without the skipped names
KeptDirs(cfg, tree, d) ==
  {q \in Dirnames(tree, d) : q[Len(q)] \notin cfg.skip_dirs}

\* the orders in which os.scandir can list a set of directories
Orderings(S) == {o \in [1..Cardinality(S) -> S] : Range(o) = S}

\* iter_files is called on a tree with a configuration (scanning.py 59-62)
InitScan ==
  /\ EngineIdle /\ JalaliIdle /\ ReadIdle /\ WriterIdle /\ DirsIdle
  /\ ConfigIdle /\ ResolveIdle /\ WindowIdle /\ LateIdle
  /\ scan_tree \in {t \in SUBSET TreeFiles : Cardinality(t) <= MaxTreeFiles}
  /\ scan_cfg \in ScanConfigs
  /\ scan_todo = << <<>> >>
  /\ scan_visited = {}
  /\ scan_yielded = {}

\* one turn of the os.walk loop (scanning.py 62-77): the directory on top
\* is listed, its sub-directories are pruned and queued, its files filtered
WalkDir ==
  /\ scan_todo # <<>>
  /\ LET d == Head(scan_todo) IN
     /\ scan_visited' = scan_visited \cup {d}
     /\ scan_yielded' =
          scan_yielded \cup
            {q \in Filenames(scan_tree, d) : YieldsFile(scan_cfg, q[Len(q)])}
     /\ \E o \in Orderings(KeptDirs(scan_cfg, scan_tree, d)) :
          scan_todo' = o \o Tail(scan_todo)
  /\ UNCHANGED <<runVars, jalaliVars, readVars, writerVars, dirVars, configVars,
               resolveVars, windowVars, lateVars,
                 scan_tree, scan_cfg>>

SpecScan == InitScan /\ [][WalkDir]_vars

(* ------------------------- read_text_with_limit ------------------------ *)
\* largest max_kb a profile carries (config.py 335: max_file_kb > 0)
MaxKb == 2

\* the bytes of a file of the given size: ASCII only; two-byte UTF-8
\* characters from the first byte on; or the same after one ASCII byte, so
\* that an even cut falls inside a character
FileKinds == {"ascii", "two_byte", "shifted"}
Content(file) ==
  [i \in 1..file.size |->
     CASE file.kind = "ascii" -> "61"
       [] file.kind = "two_byte" -> (IF i % 2 = 1 THEN "C3" ELSE "A9")
       [] OTHER -> (IF i = 1 THEN "61" ELSE IF i % 2 = 0 THEN "C3" ELSE "A9")]

\* file sizes around the limits max_kb * 1024
FileSizes ==
  {0, 1} \cup {k * 1024 + d : k \in 1..MaxKb, d \in {-1, 0, 1}}

\* bytes.decode("utf-8", errors="replace") on these bytes: a lead byte with
\* its continuation is one character, a lone lead or continuation byte
\* becomes U+FFFD
DecodeAt(data, i) ==
  CASE data[i] = "61" -> "a"
    [] data[i] = "C3" ->
         (IF i < Len(data) /\ data[i + 1] = "A9" THEN "e-acute" ELSE "U+FFFD")
    [] OTHER -> (IF i > 1 /\ data[i - 1] = "C3" THEN "" ELSE "U+FFFD")
NotEmpty(c) == c # ""
Decode(data) ==
  SelectSeq([i \in 1..Len(data) |-> DecodeAt(data, i)], NotEmpty)

\* code_bundles.py 48 and 55: the marker and the placeholder, one token each
TruncationMarker == "\n\n# [TRUNCATED DUE TO SIZE]\n"
Placeholder == "# [UNREADABLE FILE: path | exc]"

\* a size test that also truncates a file of exactly max_bytes
TruncatesAtLimit(data, max_bytes) == Len(data) >= max_bytes

\* code_bundles.py 43: the size test
Truncates(data, max_bytes) == Len(data) > max_bytes

\* code_bundles.py 39-49: the text returned when read_bytes succeeds
LimitedText(data, max_kb) ==
  LET max_bytes == max_kb * 1024 IN
  IF Truncates(data, max_bytes)
  THEN Decode(SubSeq(data, 1, max_bytes)) \o <<TruncationMarker>>
  ELSE Decode(data)

\* a file and a ceiling for the calls to come
InitRead ==
  /\ EngineIdle /\ JalaliIdle /\ ScanIdle /\ WriterIdle /\ DirsIdle
  /\ ConfigIdle /\ ResolveIdle /\ WindowIdle /\ LateIdle
  /\ read_file \in [size : FileSizes, kind : FileKinds]
  /\ read_max_kb \in 1..MaxKb
  /\ read_outputs = <<>>
  /\ read_warned = <<>>

\* one call of read_text_with_limit on the unchanged file (26-55): the
\* cancel check raises, read_bytes raises, or the text is returned
ReadText ==
  /\ read_file # NoFile
  /\ Len(read_outputs) < 2
  /\ \E met \in {"cancelled", "io_error", "read"} :
       CASE met = "cancelled" ->
              /\ read_outputs' =
                   Append(read_outputs, [kind |-> "BackupCancelled", text |-> <<>>])
              /\ read_warned' = read_warned
         [] met = "io_error" ->
              /\ read_outputs' =
                   Append(read_outputs, [kind |-> "placeholder", text |-> <<Placeholder>>])
              /\ read_warned' = Append(read_warned, "Warning: could not read")
         [] met = "read" ->
              /\ read_outputs' =
                   Append(read_outputs,
                          [kind |-> "text",
                           text |-> LimitedText(Content(read_file), read_max_kb)])
              /\ read_warned' = read_warned
  /\ UNCHANGED <<runVars, jalaliVars, scanVars, writerVars, dirVars, configVars,
               resolveVars, windowVars, lateVars,
                 read_file, read_max_kb>>

SpecRead == InitRead /\ [][ReadText]_vars

(* ------------------- the bundle writers, file by file ------------------ *)
\* most source files a scan of the project finds
MaxSourceFiles == 2

\* the step blocks whose writers are followed file by file
WriterBlocks == {b \in 1..NumBlocks : Blocks[b] # "project_root_files"}

\* the source files that go into output k of block b: the TS-only tree
\* (trees.py 111-117), the config lists (configs.py 97, 124-127) and a
\* search set (search.py 28, 34) take what their selective scans find
NumSources(b, k) ==
  CASE Blocks[b] = "trees" ->
         (IF Outputs(b, active_sets)[k] = "tree_ts" THEN n_selected ELSE n_files)
    [] Blocks[b] \in {"configs", "keyword_search"} -> n_selected
    [] OTHER -> n_files

\* the message read_text_with_limit hands to warn (code_bundles.py 54)
ReadWarning(f, i) == "Warning: could not read " \o f \o "/" \o ToString(i)

\* a reader that keeps its failures to itself
WarningsOfSilent(met, f, i) == {}

\* code_bundles.py 52-54: warn is called when the read failed
WarningsOf(met, f, i) == IF met = "io_error" THEN {ReadWarning(f, i)} ELSE {}

\* what a writer step leaves alone
writerFrame ==
  <<inputVars, timeVars, jalaliVars, scanVars, readVars, dirVars, configVars,
    resolveVars, windowVars, lateVars, search_sets,
    include_steps, phase_total, phase_index, active_sets, blk, cancel_event,
    progress, trace, logged, backup_dir, result, outcome, caller_view,
    n_files, n_selected>>

\* a writer is at work in the real branch of its block
InWriter ==
  /\ pc = "body" /\ ~dry_run /\ blk \in WriterBlocks /\ bw_pc # "off"
  /\ out_k <= Len(Outputs(blk, active_sets))

\* a real run of one step has passed its pre-checks (backup root and ZIP
\* directory existed, no note) and the head of the step's block
\* (engine.py 209-213, ...); the writer is about to be called
InitBundle ==
  /\ JalaliIdle /\ ScanIdle /\ ReadIdle /\ DirsIdle
  /\ ConfigIdle /\ ResolveIdle /\ WindowIdle /\ LateIdle
  /\ dry_run = FALSE /\ skip_zip \in BOOLEAN /\ drop_root_files = FALSE
  /\ run_no = 1 /\ prev_progress = <<>>
  /\ blk \in WriterBlocks
  /\ raw_steps = <<Blocks[blk]>>
  /\ include_steps = raw_steps
  /\ search_sets \in
       (IF Blocks[blk] = "keyword_search" THEN 1..MaxSearchSets ELSE {0})
  /\ active_sets \in 0..search_sets
  /\ phase_total = Len(Phases(include_steps, skip_zip))
  /\ phase_index = 2
  /\ pc = "body" /\ out_k = 1 /\ cancel_event = FALSE /\ exc = "none"
  /\ progress =
       << <<1, phase_total, "Pre-checks">>,
          <<2, phase_total, BlockLabel(blk, include_steps)>> >>
  /\ trace =
       << <<"begin", "Pre-checks">>, <<"end", "Pre-checks">>,
          <<"begin", BlockName(blk)>> >>
  /\ warned = {} /\ logged = {"PRECHECK"}
  /\ fs = {"Backup-stamp"} /\ backup_dir = "Backup-stamp"
  /\ result =
       [EmptyResult EXCEPT !.backup_root_path = "Backup-stamp",
                           !.created_directories = <<"Backup-stamp">>]
  /\ outcome = "none" /\ caller_view = [kind |-> "none"]
  /\ caller = "engine"
  /\ tz = "None" /\ use_network_time = FALSE /\ queries = <<>>
  /\ time_result = NoTimeResult
  /\ n_files \in 1..MaxSourceFiles
  /\ n_selected \in {0, n_files}
  /\ bw_pc = "open" /\ bw_src = 0
  /\ bundle_entries = <<>> /\ failed_reads = {}

\* cancel() arrives while the step is in progress
CancelInStep == pc = "body" /\ blk \in WriterBlocks /\ Cancel

\* a bundle writer creates its next output file: mkdir and open("w")
\* (code_bundles.py 97-99, 120-122; configs.py 98-100, 121-123;
\* api_bundles.py 80-82; search.py 31-33); no cancel check comes first
OpenBundle ==
  /\ InWriter /\ bw_pc = "open" /\ OpensBeforeCheck(blk)
  /\ \E io_ok \in BOOLEAN :
       IF io_ok
       THEN /\ fs' = fs \cup {Outputs(blk, active_sets)[out_k]}
            /\ bw_pc' = "loop" /\ bw_src' = 1
            /\ UNCHANGED <<pc, exc>>
       ELSE Raise("OSError") /\ UNCHANGED <<fs, bw_pc, bw_src>>
  /\ UNCHANGED <<writerFrame, out_k, warned, bundle_entries, failed_reads>>

\* one turn of a bundle writer's file loop (code_bundles.py 100-107,
\* 123-137; configs.py 101-117, 124-142; api_bundles.py 83-99;
\* search.py 34-45): the cancel checks of the loop and of
\* read_text_with_limit, the read, and the entry written to the bundle.
\* The search writer writes the entry only when the text holds a keyword.
BundleFile ==
  /\ InWriter /\ bw_pc = "loop" /\ bw_src <= NumSources(blk, out_k)
  /\ LET f == Outputs(blk, active_sets)[out_k] IN
     IF check_cancelled
     THEN /\ Raise("BackupCancelled")
          /\ UNCHANGED <<bw_src, warned, bundle_entries, failed_reads>>
     ELSE \E met \in {"read", "io_error", "write_error"} :
          \E hit \in (IF Blocks[blk] = "keyword_search" THEN BOOLEAN ELSE {TRUE}) :
            /\ warned' = warned \cup WarningsOf(met, f, bw_src)
            /\ failed_reads' =
                 IF met = "io_error" THEN failed_reads \cup {<<f, bw_src>>}
                 ELSE failed_reads
            /\ IF met = "write_error"
               THEN Raise("OSError") /\ UNCHANGED <<bw_src, bundle_entries>>
               ELSE /\ bundle_entries' =
                         IF hit
                         THEN Append(bundle_entries,
                                     [out |-> f, src |-> bw_src,
                                      body |-> IF met = "io_error"
                                               THEN "placeholder" ELSE "text"])
                         ELSE bundle_entries
                    /\ bw_src' = bw_src + 1
                    /\ UNCHANGED <<pc, exc>>
  /\ UNCHANGED <<writerFrame, out_k, fs, bw_pc>>

\* the file loop is over: the output file is closed and the writer turns
\* to its next output
CloseBundle ==
  /\ InWriter /\ bw_pc = "loop" /\ bw_src > NumSources(blk, out_k)
  /\ out_k' = out_k + 1
  /\ bw_pc' = "open" /\ bw_src' = 0
  /\ UNCHANGED <<writerFrame, pc, exc, fs, warned, bundle_entries,
                 failed_reads>>

\* one output of the tree writer (trees.py 33-70: a cancel check for every
\* scanned path, then the file is written) or of the path-list writer
\* (paths.py 59-64, 70-75: a cancel check, then the file is written)
WriteWhole ==
  /\ InWriter /\ bw_pc = "open" /\ ~OpensBeforeCheck(blk)
  /\ IF check_cancelled
        /\ (Blocks[blk] = "paths" \/ NumSources(blk, out_k) > 0)
     THEN Raise("BackupCancelled") /\ UNCHANGED <<fs, out_k>>
     ELSE \E io_ok \in BOOLEAN :
            IF io_ok
            THEN /\ fs' = fs \cup {Outputs(blk, active_sets)[out_k]}
                 /\ out_k' = out_k + 1
                 /\ UNCHANGED <<pc, exc>>
            ELSE Raise("OSError") /\ UNCHANGED <<fs, out_k>>
  /\ UNCHANGED <<writerFrame, warned, bw_pc, bw_src, bundle_entries,
                 failed_reads>>

NextBundle ==
  \/ CancelInStep \/ OpenBundle \/ BundleFile \/ CloseBundle \/ WriteWhole
  \/ FinishStep \/ BeginStep \/ ZipStep \/ Summary \/ Handle

SpecBundle == InitBundle /\ [][NextBundle]_vars

(* ------------------ two engines and their backup directories ----------- *)
\* the projects of the two engines (config.py 288-289: ids are distinct)
ProjectIds == <<"alpha", "beta">>

\* ProjectConfig.backup_root values; two projects may name the same one
BackupRoots == {"/backups/a", "/backups/b"}

\* the instants get_current_time resolves for the engines: one day, one
\* hour, two minutes, two seconds of each
ResolvedTimes ==
  [date : {<<2024, 3, 20>>}, hour : {12}, minute : {0, 1}, second : {10, 40}]

\* jalali.py 63-70: format_jalali_stamp, "%H-%M" after the Jalali date
format_jalali_stamp(dt) == <<gregorian_to_jalali(dt.date), dt.hour, dt.minute>>

\* engine.py 501: backup_root / f"Backup-{format_jalali_stamp(dt)}"
BackupDirOf(root, dt) == <<root, "Backup-", format_jalali_stamp(dt)>>

\* two engines, each constructed for its project, each about to name its
\* backup directory in a real run
InitDirs ==
  /\ EngineIdle /\ JalaliIdle /\ ScanIdle /\ ReadIdle /\ WriterIdle
  /\ ConfigIdle /\ ResolveIdle /\ WindowIdle /\ LateIdle
  /\ engines \in
       {e \in [1..2 -> [project_id : Range(ProjectIds), backup_root : BackupRoots,
                        dt : ResolvedTimes, pc : {"pre_backup_dir"},
                        backup_dir : {"None"}]] :
          \A i \in 1..2 : e[i].project_id = ProjectIds[i]}
  /\ made_dirs = {}
  /\ reused_dirs = {}

\* engine.py 501: one engine names its backup directory
NameBackupDir(i) ==
  /\ engines[i].pc = "pre_backup_dir"
  /\ engines' =
       [engines EXCEPT
          ![i].backup_dir = BackupDirOf(engines[i].backup_root, engines[i].dt),
          ![i].pc = "mkdir"]
  /\ UNCHANGED <<made_dirs, reused_dirs>>

\* engine.py 506: mkdir(parents=True, exist_ok=True) creates the directory
\* or takes the one in place
MakeBackupDir(i) ==
  /\ engines[i].pc = "mkdir"
  /\ LET d == engines[i].backup_dir IN
     IF \E j \in 1..2 : <<d, j>> \in made_dirs
     THEN reused_dirs' = reused_dirs \cup {<<d, i>>} /\ made_dirs' = made_dirs
     ELSE made_dirs' = made_dirs \cup {<<d, i>>} /\ reused_dirs' = reused_dirs
  /\ engines' = [engines EXCEPT ![i].pc = "steps"]

NextDirs ==
  /\ \E i \in 1..2 : NameBackupDir(i) \/ MakeBackupDir(i)
  /\ UNCHANGED <<runVars, jalaliVars, scanVars, readVars, writerVars, configVars,
               resolveVars, windowVars, lateVars>>

SpecDirs == InitDirs /\ [][NextDirs]_vars

(* ------------------- load_app_config and the step list ----------------- *)
\* config.py 256-262: _validate_step_list raises BackupConfigError when a
\* value is outside ALLOWED_STEPS, and returns the list otherwise
validate_step_list(values) ==
  LET invalid == SelectSeq(values, LAMBDA v : v \notin ALLOWED_STEPS)
  IN IF invalid # <<>>
     THEN [raised |-> "BackupConfigError", value |-> <<>>]
     ELSE [raised |-> "none", value |-> values]

\* a config file is about to be loaded and a run asked for; the step list
\* is written in the profile (include_steps) or handed to run_backup
\* (include_steps_override) with a profile that names no steps
InitConfig ==
  /\ requested \in
       [source : {"profile", "override"},
        steps : SeqsUpTo(ALLOWED_STEPS \cup {UnknownStep}, MaxSteps)]
  /\ config_outcome = "none"
  /\ dry_run \in BOOLEAN
  /\ skip_zip \in BOOLEAN
  /\ raw_steps = <<>>
  /\ search_sets \in
       (IF "keyword_search" \in Range(requested.steps)
        THEN 0..MaxSearchSets ELSE {0})
  /\ drop_root_files \in
       (IF "project_root_files" \in Range(requested.steps)
        THEN BOOLEAN ELSE {FALSE})
  /\ run_no = 1
  /\ prev_progress = <<>>
  /\ include_steps = <<>>
  /\ phase_total = 0
  /\ phase_index = 0
  /\ active_sets = 0
  /\ pc = "config"
  /\ blk = 0
  /\ out_k = 0
  /\ cancel_event = FALSE
  /\ exc = "none"
  /\ progress = <<>>
  /\ trace = <<>>
  /\ warned = {}
  /\ logged = {}
  /\ fs = {}
  /\ backup_dir = "None"
  /\ result = EmptyResult
  /\ outcome = "none"
  /\ caller_view = [kind |-> "none"]
  /\ caller = "engine"
  /\ tz = "None"
  /\ use_network_time = FALSE
  /\ queries = <<>>
  /\ time_result = NoTimeResult
  /\ JalaliIdle /\ ScanIdle /\ ReadIdle /\ WriterIdle /\ DirsIdle
  /\ ResolveIdle /\ WindowIdle /\ LateIdle

\* config.py 324-329 and engine.py 172: load_app_config builds the profile,
\* validating the include_steps it names; with the profile loaded,
\* run_backup takes the override when there is one and the profile's list
\* otherwise
LoadAppConfig ==
  /\ pc = "config"
  /\ IF requested.source = "profile"
     THEN LET checked == validate_step_list(requested.steps) IN
          IF checked.raised # "none"
          THEN /\ config_outcome' = checked.raised
               /\ pc' = "config_failed"
               /\ raw_steps' = raw_steps
          ELSE /\ config_outcome' = "loaded"
               /\ pc' = "idle"
               /\ raw_steps' = checked.value
     ELSE /\ config_outcome' = "loaded"
          /\ pc' = "idle"
          /\ raw_steps' = requested.steps
  /\ UNCHANGED <<dry_run, skip_zip, drop_root_files, caller, run_no,
                 prev_progress, timeVars, engineVars, jalaliVars, scanVars,
                 readVars, writerVars, dirVars, resolveVars, windowVars, lateVars,
                 requested>>

NextConfig == LoadAppConfig \/ Next

SpecConfig == InitConfig /\ [][NextConfig]_vars

(* ------------------- the keyword-search block, id by id ---------------- *)
\* ids of search sets, in the config file or in a caller's request; the
\* last one is never configured
SetIds == {"s1", "s2", "sx"}
ConfigurableIds == {"s1", "s2"}

\* app_config.search_sets as the list of its keys, in dict order; the empty
\* list also stands for an engine without app_config (engine.py 584, 596)
SearchSetConfigs ==
  {q \in SeqsUpTo(ConfigurableIds, Cardinality(ConfigurableIds)) :
     \A i, j \in 1..Len(q) : i # j => q[i] # q[j]}

\* a lookup that finds every id
FoundAlways(sid, configured) == TRUE
\* engine.py 590: sid in self._app_config.search_sets
Found(sid, configured) == \E i \in 1..Len(configured) : configured[i] = sid

\* engine.py 592
NotFoundWarning(sid) == <<"Search set not found; skipping.", sid>>

\* engine.py 583-593: _resolve_search_sets, the list it returns and the
\* warnings it gives, in order
resolve_search_sets(ids, configured) ==
  IF configured = <<>>
  THEN [resolved |-> <<>>, warned |-> <<>>]
  ELSE IF ids.is_none \/ ids.value = <<>>
  THEN [resolved |-> configured, warned |-> <<>>]
  ELSE [resolved |-> SelectSeq(ids.value, LAMBDA sid : Found(sid, configured)),
        warned |->
          LET missing == SelectSeq(ids.value, LAMBDA sid : ~Found(sid, configured))
          IN [i \in 1..Len(missing) |-> NotFoundWarning(missing[i])]]

\* engine.py 595-597: _has_search_sets
has_search_sets(configured) == configured # <<>>

\* a run_backup call has reached its keyword-search block
InitResolve ==
  /\ EngineIdle /\ JalaliIdle /\ ScanIdle /\ ReadIdle /\ WriterIdle /\ DirsIdle
  /\ ConfigIdle /\ WindowIdle /\ LateIdle
  /\ app_search_sets \in SearchSetConfigs
  /\ search_set_ids \in
       {NoIds} \cup {SomeIds(q) : q \in SeqsUpTo(SetIds, MaxIds)}
  /\ kw \in
       {[NoKw EXCEPT !.pc = "guard", !.enabled = e, !.dry_run = d] :
          e \in BOOLEAN, d \in BOOLEAN}

\* engine.py 373-375: the guard of the block, its progress call and its
\* cancel check
KwBegin ==
  /\ kw.pc = "guard"
  /\ IF kw.enabled /\ has_search_sets(app_search_sets)
     THEN \E cancelled \in BOOLEAN :
            kw' = [kw EXCEPT
                     !.entered = TRUE,
                     !.pc = IF cancelled THEN "raised" ELSE "resolve",
                     !.exc = IF cancelled THEN "BackupCancelled" ELSE "none"]
     ELSE kw' = [kw EXCEPT !.pc = "skipped"]
  /\ UNCHANGED <<app_search_sets, search_set_ids>>

\* engine.py 376: active_sets = list(self._resolve_search_sets(...))
KwResolve ==
  /\ kw.pc = "resolve"
  /\ LET r == resolve_search_sets(search_set_ids, app_search_sets) IN
     kw' = [kw EXCEPT !.active_sets = r.resolved, !.warned = r.warned,
                      !.pc = IF kw.dry_run THEN "dry" ELSE "search"]
  /\ UNCHANGED <<app_search_sets, search_set_ids>>

\* engine.py 377-383: the dry-run branch
KwDry ==
  /\ kw.pc = "dry"
  /\ kw' = [kw EXCEPT !.stats = <<"planned", Len(kw.active_sets)>>,
                      !.pc = "end"]
  /\ UNCHANGED <<app_search_sets, search_set_ids>>

\* search.py 60-69: run_search_sets handles the next set of the list, or
\* the writer fails on it
KwSearchSet ==
  /\ kw.pc = "search"
  /\ Len(kw.processed) < Len(kw.active_sets)
  /\ \E io_ok \in BOOLEAN :
       IF io_ok
       THEN kw' = [kw EXCEPT
                     !.processed = Append(@, kw.active_sets[Len(kw.processed) + 1])]
       ELSE kw' = [kw EXCEPT !.pc = "raised", !.exc = "OSError"]
  /\ UNCHANGED <<app_search_sets, search_set_ids>>

\* search.py 70 and engine.py 393-396: the statistics, keyed by set id
KwFinish ==
  /\ kw.pc = "search"
  /\ Len(kw.processed) = Len(kw.active_sets)
  /\ kw' = [kw EXCEPT !.stats = <<"matches", Range(kw.processed)>>,
                      !.pc = "end"]
  /\ UNCHANGED <<app_search_sets, search_set_ids>>

NextResolve ==
  /\ KwBegin \/ KwResolve \/ KwDry \/ KwSearchSet \/ KwFinish
  /\ UNCHANGED <<runVars, jalaliVars, scanVars, readVars, writerVars, dirVars,
                 configVars, windowVars, lateVars>>

SpecResolve == InitResolve /\ [][NextResolve]_vars

(* ---------------------- the window and its workers --------------------- *)
\* a thread that reports no run
isRunningNever(w) == FALSE
\* QThread.isRunning: true from start() until run() has returned
isRunning(w) == w.state \in {"started", "engine", "late", "emitted"}

\* backup_worker.py 25-40: BackupWorker.__init__, then start() (window.py 430)
\* requested_at: the positions of run() before the last checkpoint of
\* run_backup at which cancel() was called;
\* ended: how run_backup ended
NewWorker(d) ==
  [dry_run |-> d, state |-> "started", engine |-> FALSE,
   cancel_event |-> FALSE, requested_at |-> {}, ended |-> "none"]

\* the window is open: nothing loaded or selected, no worker
InitWindow ==
  /\ EngineIdle /\ JalaliIdle /\ ScanIdle /\ ReadIdle /\ WriterIdle /\ DirsIdle
  /\ ConfigIdle /\ ResolveIdle /\ LateIdle
  /\ window = [NoWindow EXCEPT !.log = {}]
  /\ workers = <<>>
  /\ signals = <<>>

\* window.py 339-345, 374: the config is loaded, a project and a profile
\* are selected
LoadAndSelect ==
  /\ ~window.ready
  /\ window' = [window EXCEPT !.ready = TRUE]
  /\ UNCHANGED <<workers, signals>>

\* window.py 389-430: _run_diff / _run_backup call _start_operation
start_operation(d) ==
  IF ~window.ready
  THEN /\ window' = [window EXCEPT !.log = @ \cup {"not ready"}]
       /\ UNCHANGED <<workers, signals>>
  ELSE IF window.worker # 0 /\ isRunning(workers[window.worker])
  THEN /\ window' = [window EXCEPT !.log = @ \cup {"already running"}]
       /\ UNCHANGED <<workers, signals>>
  ELSE /\ Len(workers) < MaxWorkers
       /\ workers' = Append(workers, NewWorker(d))
       /\ window' = [window EXCEPT !.log = {"Starting"}, !.busy = TRUE,
                                   !.worker = Len(workers) + 1]
       /\ UNCHANGED signals

\* window.py 432-434 and backup_worker.py 43-45: the cancel request reaches
\* the engine if the worker has constructed one
cancel_operation ==
  /\ IF window.worker # 0
     THEN /\ workers' =
               [workers EXCEPT
                  ![window.worker].cancel_event = @ \/ workers[window.worker].engine,
                  ![window.worker].requested_at =
                     @ \cup ({workers[window.worker].state}
                               \cap {"started", "engine"})]
          /\ window' = [window EXCEPT !.log = @ \cup {"Cancel requested"}]
     ELSE UNCHANGED <<workers, window>>
  /\ UNCHANGED signals

\* backup_worker.py 50-56 (and 64-65 when the constructor raises)
WorkerConstructEngine(i) ==
  /\ workers[i].state = "started"
  /\ \E ok \in BOOLEAN :
       IF ok
       THEN /\ workers' = [workers EXCEPT ![i].state = "engine", ![i].engine = TRUE]
            /\ signals' = signals
       ELSE /\ workers' = [workers EXCEPT ![i].state = "emitted",
                                           ![i].ended = "raised"]
            /\ signals' = Append(signals, <<i, "finished_error">>)
  /\ UNCHANGED window

\* backup_worker.py 57-60 and engine.py 88-90: run_backup goes through its
\* cancellation checkpoints; with cancel_event set it raises
\* BackupCancelled at the next one, otherwise it gets past the last one,
\* unless an error ends it before
WorkerCheckpoints(i) ==
  /\ workers[i].state = "engine"
  /\ \/ /\ workers[i].cancel_event
        /\ workers' = [workers EXCEPT ![i].state = "emitted",
                                       ![i].ended = "cancelled"]
        /\ signals' = Append(signals, <<i, "finished_error">>)
     \/ /\ ~workers[i].cancel_event
        /\ workers' = [workers EXCEPT ![i].state = "late"]
        /\ signals' = signals
     \/ /\ workers' = [workers EXCEPT ![i].state = "emitted",
                                       ![i].ended = "raised"]
        /\ signals' = Append(signals, <<i, "finished_error">>)
  /\ UNCHANGED window

\* backup_worker.py 57-65: past its last checkpoint run_backup returns or
\* raises, and the worker emits finished_ok or finished_error
WorkerRunBackup(i) ==
  /\ workers[i].state = "late"
  /\ \E how \in {"returned", "raised"} :
       /\ signals' =
            Append(signals,
                   <<i, IF how = "returned" THEN "finished_ok" ELSE "finished_error">>)
       /\ workers' = [workers EXCEPT ![i].state = "emitted", ![i].ended = how]
  /\ UNCHANGED window

\* run() returns: the thread is no longer running
WorkerReturn(i) ==
  /\ workers[i].state = "emitted"
  /\ workers' = [workers EXCEPT ![i].state = "finished"]
  /\ UNCHANGED <<window, signals>>

\* window.py 448-466: _on_finished_ok / _on_finished_error, run by the
\* window's thread for the next queued emission
on_finished ==
  /\ signals # <<>>
  /\ window' = [window EXCEPT !.busy = FALSE, !.log = @ \cup {Head(signals)[2]}]
  /\ signals' = Tail(signals)
  /\ UNCHANGED workers

NextWindow ==
  /\ \/ LoadAndSelect
     \/ \E d \in BOOLEAN : start_operation(d)
     \/ cancel_operation
     \/ \E i \in 1..Len(workers) :
          \/ WorkerConstructEngine(i) \/ WorkerCheckpoints(i)
          \/ WorkerRunBackup(i) \/ WorkerReturn(i)
     \/ on_finished
  /\ UNCHANGED <<runVars, jalaliVars, scanVars, readVars, writerVars, dirVars,
                 configVars, resolveVars, lateVars>>

SpecWindow == InitWindow /\ [][NextWindow]_vars

(* ------------------------------ create_zip ----------------------------- *)
\* the files a backup directory can hold, as paths below it, and the
\* directories it can hold that have no file in them
ZipTreeFiles ==
  {<<"notes.txt">>, <<"trees", "tree.md">>, <<"search", "Search_1.md">>,
   <<"code", "api", "api_code.txt">>}
ZipEmptyDirs == {<<"empty">>, <<"trees", "old">>}

\* every directory below the backup directory
ZipDirs(tree) ==
  UNION {{SubSeq(q, 1, k) : k \in 1..(Len(q) - 1)} : q \in tree.files}
    \cup UNION {{SubSeq(q, 1, k) : k \in 1..Len(q)} : q \in tree.empty_dirs}

\* os.walk (zipper.py 30): the sub-directories of one directory
ZipSubDirs(tree, d) ==
  {q \in ZipDirs(tree) : Len(q) = Len(d) + 1 /\ IsPrefix(d, q)}

\* pathlib: PurePath.relative_to
RelativeTo(path, base) == SubSeq(path, Len(base) + 1, Len(path))

\* entries named from the backup directory itself
ArcBaseSelf(zin) == zin.parent \o <<zin.name>>
\* zipper.py 33: backup_dir.parent
ArcBase(zin) == zin.parent

\* zipper.py 32-33: file_path = Path(root) / file and its arcname
ArcName(zin, q) == RelativeTo(zin.parent \o <<zin.name>> \o q, ArcBase(zin))

\* create_zip is called on a backup directory
InitZip ==
  /\ EngineIdle /\ JalaliIdle /\ ScanIdle /\ ReadIdle /\ WriterIdle /\ DirsIdle
  /\ ConfigIdle /\ ResolveIdle /\ WindowIdle /\ NotZipIdle
  /\ zip_in \in
       [parent : {<<"backups">>, <<"data", "backups">>},
        name : {"Backup-1403-1-1_12-00"},
        output_dir : {<<"zips">>, <<"data", "out", "zips">>},
        files : SUBSET ZipTreeFiles,
        empty_dirs : SUBSET ZipEmptyDirs]
  /\ zip_st = [NoZipSt EXCEPT !.pc = "start"]

\* zipper.py 18-28: the output directory is made and the archive opened for
\* writing, unless that fails
ZipOpen ==
  /\ zip_st.pc = "start"
  /\ \E io_ok \in BOOLEAN :
       IF io_ok
       THEN zip_st' =
              [zip_st EXCEPT
                 !.pc = "walk",
                 !.made = {zip_in.output_dir},
                 !.archive_path = zip_in.output_dir \o <<zip_in.name \o ".zip">>,
                 !.todo = << <<>> >>]
       ELSE zip_st' = [zip_st EXCEPT !.pc = "raised"]
  /\ UNCHANGED zip_in

\* zipper.py 30-34: one turn of the os.walk loop; every file of the
\* directory is written under its arcname
ZipWalkDir ==
  /\ zip_st.pc = "walk" /\ zip_st.todo # <<>>
  /\ LET d == Head(zip_st.todo) IN
     \E o \in Orderings(ZipSubDirs(zip_in, d)) :
       zip_st' =
         [zip_st EXCEPT
            !.entries = @ \cup {ArcName(zip_in, q) : q \in Filenames(zip_in.files, d)},
            !.todo = o \o Tail(zip_st.todo)]
  /\ UNCHANGED zip_in

\* zipper.py 28, 36: the with block ends, the archive is closed
ZipClose ==
  /\ zip_st.pc = "walk" /\ zip_st.todo = <<>>
  /\ zip_st' = [zip_st EXCEPT !.pc = "done"]
  /\ UNCHANGED zip_in

NextZip ==
  /\ ZipOpen \/ ZipWalkDir \/ ZipClose
  /\ UNCHANGED <<runVars, jalaliVars, scanVars, readVars, writerVars, dirVars,
                 configVars, resolveVars, windowVars, notZipVars>>

SpecZip == InitZip /\ [][NextZip]_vars

(* ---------------------------- section headers -------------------------- *)
\* config.py 17-20, 31-38
OutputFormats == {"txt", "md", "html"}
SeparatorStyles ==
  {"equals", "hash", "markdown", "dashed", "comment", "xml", "custom"}

\* format strings are sequences of pieces; a piece in braces is a
\* replacement field of str.format
Fields == {"{path}", "{name}"}

\* config.py 89-96: formats
formats ==
  [s \in SeparatorStyles \ {"custom"} |->
     CASE s = "equals" -> <<"\n===== ", "{path}", " =====\n">>
       [] s = "hash" -> <<"\n##### ", "{path}", " #####\n">>
       [] s = "markdown" -> <<"\n## ", "{path}", "\n">>
       [] s = "dashed" -> <<"\n----- ", "{path}", " -----\n">>
       [] s = "comment" -> <<"\n// === ", "{path}", " ===\n">>
       [] s = "xml" -> <<"\n<!-- ", "{path}", " -->\n">>]

\* the custom_separator values of a config file: absent, empty, with the
\* path field, without any field, with a field str.format is not given
CustomSeparators ==
  {NoCustom, SomeCustom(<<>>), SomeCustom(<<"\n>>> ", "{path}", "\n">>),
   SomeCustom(<<"\n----------\n">>), SomeCustom(<<"\n# ", "{name}", "\n">>)}

\* config.py 85-99: get_separator_format
get_separator_format(style, custom_format) ==
  IF style = "custom" /\ ~custom_format.is_none /\ custom_format.value # <<>>
  THEN custom_format.value
  ELSE IF style \in DOMAIN formats THEN formats[style] ELSE formats["equals"]

\* str.format(path=rel): KeyError on a field it is not given
StrFormat(fmt, rel) ==
  IF \E i \in 1..Len(fmt) : fmt[i] \in Fields \ {"{path}"}
  THEN [raised |-> "KeyError", value |-> <<>>]
  ELSE [raised |-> "none",
        value |-> [i \in 1..Len(fmt) |-> IF fmt[i] = "{path}" THEN rel ELSE fmt[i]]]

\* code_bundles.py 69-74: _format_header
format_header(rel, cfg) ==
  LET style == IF cfg.format = "md" /\ cfg.separator_style = "equals"
               THEN "markdown" ELSE cfg.separator_style
  IN StrFormat(get_separator_format(style, cfg.custom_separator), rel)

\* code_bundles.py 132-137: what precedes the body in a file's section
SectionHead(rel, cfg) ==
  LET header == format_header(rel, cfg) IN
  IF header.raised # "none" THEN header
  ELSE IF cfg.format = "html"
  THEN [raised |-> "none", value |-> <<"<section><h3>", rel, "</h3>">>]
  ELSE header

\* the files a scan of the root can find, in sorted order
HdrPaths == <<"a.ts", "src/a.ts", "src/b.ts">>

\* _write_text_bundle is called with the scanned files and a configuration
InitHdr ==
  /\ EngineIdle /\ JalaliIdle /\ ScanIdle /\ ReadIdle /\ WriterIdle /\ DirsIdle
  /\ ConfigIdle /\ ResolveIdle /\ WindowIdle /\ NotHdrIdle
  /\ hdr_cfg \in
       [format : OutputFormats, separator_style : SeparatorStyles,
        custom_separator : CustomSeparators]
  /\ hdr_files \in (SUBSET Range(HdrPaths)) \ {{}}
  /\ hdr_sections = <<>>
  /\ hdr_pc = "loop"

\* code_bundles.py 123-137: one turn of the file loop
WriteSection ==
  /\ hdr_pc = "loop"
  /\ LET done == {hdr_sections[i].path : i \in 1..Len(hdr_sections)}
         left == {i \in 1..Len(HdrPaths) : HdrPaths[i] \in hdr_files \ done}
     IN /\ left # {}
        /\ LET rel == HdrPaths[CHOOSE i \in left : \A j \in left : i <= j]
               head == SectionHead(rel, hdr_cfg)
           IN IF head.raised # "none"
              THEN hdr_pc' = "raised" /\ hdr_sections' = hdr_sections
              ELSE /\ hdr_sections' =
                        Append(hdr_sections, [path |-> rel, head |-> head.value])
                   /\ hdr_pc' = IF Cardinality(left) = 1 THEN "done" ELSE "loop"
  /\ UNCHANGED <<hdr_cfg, hdr_files>>

NextHdr ==
  /\ WriteSection
  /\ UNCHANGED <<runVars, jalaliVars, scanVars, readVars, writerVars, dirVars,
                 configVars, resolveVars, windowVars, notHdrVars>>

SpecHdr == InitHdr /\ [][NextHdr]_vars

(* ------------------------- run_universal_backup ------------------------ *)
\* the files of all folder groups
UbTotal(folders) == LET RECURSIVE Sum(_)
                        Sum(k) == IF k = 0 THEN 0 ELSE folders[k] + Sum(k - 1)
                    IN Sum(Len(folders))

\* the output files of a run: one per folder group, or one for all files
UbOutputs(uin) ==
  IF uin.split_by_folder THEN uin.folders ELSE <<UbTotal(uin.folders)>>

\* universal_backup.py 474-475: `except Exception` around the writing of an
\* output file; BackupCancelled is an Exception (errors.py)
WriteFileExcept(kind) == "BackupIOError"

\* run_universal_backup is called; cancel_check raises BackupCancelled once
\* the cancel flag is set
InitUb ==
  /\ EngineIdle /\ JalaliIdle /\ ScanIdle /\ ReadIdle /\ WriterIdle /\ DirsIdle
  /\ ConfigIdle /\ ResolveIdle /\ WindowIdle /\ NotUbIdle
  /\ ub_in \in
       [split_by_folder : BOOLEAN,
        folders : SeqsUpTo(1..MaxFolderFiles, MaxFolders)]
  /\ ub = [NoUb EXCEPT !.pc = "scan"]

\* the cancel request: the flag behind cancel_check is set
UbCancel ==
  /\ ub.pc \notin {"off", "raised", "returned"} /\ ~ub.cancelled
  /\ ub' = [ub EXCEPT !.cancelled = TRUE]
  /\ UNCHANGED ub_in

\* universal_backup.py 189-209 and 351-354: the scan meets a file
UbScanFile ==
  /\ ub.pc = "scan" /\ ub.scanned < UbTotal(ub_in.folders)
  /\ IF ub.cancelled
     THEN ub' = [ub EXCEPT !.pc = "raised", !.signalled = "scan",
                           !.outcome = "BackupCancelled"]
     ELSE ub' = [ub EXCEPT !.scanned = @ + 1]
  /\ UNCHANGED ub_in

\* universal_backup.py 356-380, 393-395: the scan is over
UbScanDone ==
  /\ ub.pc = "scan" /\ ub.scanned = UbTotal(ub_in.folders)
  /\ IF ub.scanned = 0
     THEN ub' = [ub EXCEPT !.pc = "returned", !.outcome = "returned"]
     ELSE ub' = [ub EXCEPT !.g = 1,
                           !.pc = IF ub_in.split_by_folder THEN "group" ELSE "open"]
  /\ UNCHANGED ub_in

\* universal_backup.py 383-385: the checkpoint between folder groups
UbGroup ==
  /\ ub.pc = "group"
  /\ IF ub.cancelled
     THEN ub' = [ub EXCEPT !.pc = "raised", !.signalled = "group",
                           !.outcome = "BackupCancelled"]
     ELSE ub' = [ub EXCEPT !.pc = "open"]
  /\ UNCHANGED ub_in

\* universal_backup.py 414-415: the output file is opened inside the try
UbOpen ==
  /\ ub.pc = "open"
  /\ \E io_ok \in BOOLEAN :
       IF io_ok
       THEN ub' = [ub EXCEPT !.pc = "write", !.i = 1]
       ELSE ub' = [ub EXCEPT !.pc = "raised",
                             !.outcome = WriteFileExcept("OSError")]
  /\ UNCHANGED ub_in

\* universal_backup.py 420-458: one turn of the file loop, inside the try:
\* the checkpoint, then the file is read and written
UbWriteFile ==
  /\ ub.pc = "write" /\ ub.i <= UbOutputs(ub_in)[ub.g]
  /\ IF ub.cancelled
     THEN ub' = [ub EXCEPT !.pc = "raised", !.signalled = "file",
                           !.outcome = WriteFileExcept("BackupCancelled")]
     ELSE \E io_ok \in BOOLEAN :
            IF io_ok
            THEN ub' = [ub EXCEPT !.i = @ + 1, !.files_included = @ + 1]
            ELSE ub' = [ub EXCEPT !.pc = "raised",
                                  !.outcome = WriteFileExcept("OSError")]
  /\ UNCHANGED ub_in

\* universal_backup.py 460-472, 390-392, 398-399: the output file is closed
\* and counted; the next group follows, or the call returns
UbCloseFile ==
  /\ ub.pc = "write" /\ ub.i > UbOutputs(ub_in)[ub.g]
  /\ IF ub.g < Len(UbOutputs(ub_in))
     THEN ub' = [ub EXCEPT !.output_files_created = @ + 1, !.g = @ + 1,
                           !.i = 0, !.pc = "group"]
     ELSE ub' = [ub EXCEPT !.output_files_created = @ + 1,
                           !.pc = "returned", !.outcome = "returned"]
  /\ UNCHANGED ub_in

NextUb ==
  /\ \/ UbCancel \/ UbScanFile \/ UbScanDone \/ UbGroup \/ UbOpen
     \/ UbWriteFile \/ UbCloseFile
  /\ UNCHANGED <<runVars, jalaliVars, scanVars, readVars, writerVars, dirVars,
                 configVars, resolveVars, windowVars, notUbVars>>

SpecUb == InitUb /\ [][NextUb]_vars

(* -------------------------- the filename builder ----------------------- *)
\* names are sequences of characters
Chars(s) ==
  CASE s = "paths" -> <<"p", "a", "t", "h", "s">>
    [] s = "paths_ts" -> <<"p", "a", "t", "h", "s", "_", "t", "s">>
    [] s = "tree" -> <<"t", "r", "e", "e">>
    [] s = "tree_ts" -> <<"t", "r", "e", "e", "_", "t", "s">>
    [] s = "My-App" -> <<"M", "y", "-", "A", "p", "p">>
    [] s = "20250320_1200" ->
         <<"2", "0", "2", "5", "0", "3", "2", "0", "_", "1", "2", "0", "0">>
    [] s = "project" -> <<"p", "r", "o", "j", "e", "c", "t">>
    [] s = "backup" -> <<"b", "a", "c", "k", "u", "p">>
    [] s = ".md" -> <<".", "m", "d">>
    [] s = "_" -> <<"_">>

\* str.isalnum and str.lower on the characters in use
IsAlnum(ch) == ch \notin {"_", "-", ".", " "}
ToLower(ch) == CASE ch = "M" -> "m" [] ch = "A" -> "a" [] OTHER -> ch

\* the elements of c at the positions K, in order
Pick(c, K) ==
  [n \in 1..Cardinality(K) |->
     c[CHOOSE i \in K : Cardinality({j \in K : j <= i}) = n]]

\* engine.py 95-98: _slugify
slugify(value) ==
  LET cleaned == [i \in 1..Len(value) |->
                    IF IsAlnum(value[i]) THEN ToLower(value[i]) ELSE "_"]
      kept == {i \in 1..Len(cleaned) :
                 \/ cleaned[i] # "_"
                 \/ /\ i > 1 /\ cleaned[i - 1] # "_"
                    /\ \E j \in (i + 1)..Len(cleaned) : cleaned[j] # "_"}
      slug == Pick(cleaned, kept)
  IN IF slug # <<>> THEN slug ELSE Chars("project")

\* a name template: literal pieces and replacement fields of str.format
Lit(s) == [kind |-> "lit", name |-> s]
Field(n) == [kind |-> "field", name |-> n]
DefaultTemplate ==
  <<Field("project"), Lit("_"), Field("base"), Lit("_"), Field("stamp")>>

\* the name_template values of a config file: the default, empty, the base
\* alone, without the base, a constant, and one with a field the builder
\* does not supply
NameTemplates ==
  {DefaultTemplate, <<>>, <<Field("base")>>,
   <<Field("project"), Lit("_"), Field("stamp")>>, <<Lit("backup")>>,
   <<Field("base"), Lit("_"), Field("date")>>}

\* str.format(base=..., project=..., stamp=...): KeyError on another field
RECURSIVE Expand(_, _)
Expand(template, vals) ==
  IF template = <<>> THEN <<>>
  ELSE (IF Head(template).kind = "lit" THEN Chars(Head(template).name)
        ELSE vals[Head(template).name]) \o Expand(Tail(template), vals)
TemplateFormat(template, vals) ==
  IF \E i \in 1..Len(template) :
       template[i].kind = "field" /\ template[i].name \notin DOMAIN vals
  THEN [raised |-> "KeyError", value |-> <<>>]
  ELSE [raised |-> "none", value |-> Expand(template, vals)]

\* engine.py 124-134: builder(base, ext_override)
builder(cfg, base, ext) ==
  LET project_slug == slugify(Chars("My-App"))
      stamp == Chars("20250320_1200")
      template == IF cfg.name_template # <<>> THEN cfg.name_template
                  ELSE DefaultTemplate
      base_slug == slugify(Chars(base))
      formatted == TemplateFormat(template,
                     [base |-> base_slug, project |-> project_slug, stamp |-> stamp])
      name == IF cfg.dynamic_names
              THEN (IF formatted.raised = "none" THEN formatted.value
                    ELSE project_slug \o Chars("_") \o base_slug \o Chars("_") \o stamp)
              ELSE base_slug
  IN <<"Backup-stamp", name \o Chars(ext)>>

\* logical base names the steps hand to the builder (paths.py 62, 73;
\* trees.py 68)
BaseNames == {"paths", "paths_ts", "tree", "tree_ts"}

\* a real run has built its filename builder (engine.py 511)
InitNb ==
  /\ EngineIdle /\ JalaliIdle /\ ScanIdle /\ ReadIdle /\ WriterIdle /\ DirsIdle
  /\ ConfigIdle /\ ResolveIdle /\ WindowIdle /\ NotNbIdle
  /\ nb_cfg \in [dynamic_names : BOOLEAN, name_template : NameTemplates]
  /\ nb_paths = {}

\* a step asks the builder for the path of one of its bundles
BuildName ==
  /\ \E base \in BaseNames :
       /\ \A e \in nb_paths : e[1] # base
       /\ nb_paths' = nb_paths \cup {<<base, builder(nb_cfg, base, ".md")>>}
  /\ UNCHANGED nb_cfg

NextNb ==
  /\ BuildName
  /\ UNCHANGED <<runVars, jalaliVars, scanVars, readVars, writerVars, dirVars,
                 configVars, resolveVars, windowVars, notNbVars>>

SpecNb == InitNb /\ [][NextNb]_vars

(* ---------------------------- generate_trees --------------------------- *)
\* the trees block of a real run calls generate_trees (engine.py 218-224)
InitTr ==
  /\ EngineIdle /\ JalaliIdle /\ ScanIdle /\ ReadIdle /\ WriterIdle /\ DirsIdle
  /\ ConfigIdle /\ ResolveIdle /\ WindowIdle /\ NotTrIdle
  /\ tr_in \in [files : SUBSET TrFiles, empty_dirs : SUBSET TrEmptyDirs,
                cancel_event : {FALSE}]
  /\ tr_st = [pc |-> "running", k |-> 1, files_written |-> 0, written |-> {}]

\* engine.py 88-89: cancel() from another thread
TrCancel ==
  /\ tr_st.pc = "running" /\ ~tr_in.cancel_event
  /\ tr_in' = [tr_in EXCEPT !.cancel_event = TRUE]
  /\ UNCHANGED tr_st

\* trees.py 90-92: a designated area that is not a directory is passed over
TrSkipArea ==
  /\ tr_st.pc = "running" /\ tr_st.k <= NumAreaTrees
  /\ ~TrIsDir(tr_in, TreeCalls[tr_st.k].root)
  /\ tr_st' = [tr_st EXCEPT !.k = @ + 1]
  /\ UNCHANGED tr_in

\* trees.py 93-118 with _write_tree 40-70: the cancel check runs once for
\* each scanned path; the tree file is written and the call's return value
\* is added to stats.files_written
TrWriteTree ==
  /\ tr_st.pc = "running" /\ tr_st.k <= Len(TreeCalls)
  /\ LET call == TreeCalls[tr_st.k]
         listed == write_tree(tr_in, call)
     IN /\ tr_st.k <= NumAreaTrees => TrIsDir(tr_in, call.root)
        /\ IF tr_in.cancel_event /\ listed > 0
           THEN tr_st' = [tr_st EXCEPT !.pc = "BackupCancelled"]
           ELSE tr_st' = [tr_st EXCEPT !.k = @ + 1,
                                       !.files_written = @ + listed,
                                       !.written = @ \cup {call.name}]
  /\ UNCHANGED tr_in

\* trees.py 120 and engine.py 225: the statistics are recorded
TrReturn ==
  /\ tr_st.pc = "running" /\ tr_st.k > Len(TreeCalls)
  /\ tr_st' = [tr_st EXCEPT !.pc = "done"]
  /\ UNCHANGED tr_in

NextTr ==
  /\ TrCancel \/ TrSkipArea \/ TrWriteTree \/ TrReturn
  /\ UNCHANGED <<runVars, jalaliVars, scanVars, readVars, writerVars, dirVars,
                 configVars, resolveVars, windowVars, notTrVars>>

SpecTr == InitTr /\ [][NextTr]_vars

(* ------------------------------- claims -------------------------------- *)
Rank(name) ==
  IF name = "Pre-checks" THEN 0
  ELSE IF name = "zip" THEN ZipBlock
  ELSE IF name = "Summary" THEN SummaryBlock
  ELSE CHOOSE b \in 1..NumBlocks : Blocks[b] = name

Begun == {trace[i][2] : i \in {j \in 1..Len(trace) : trace[j][1] = "begin"}}
Ended == {trace[i][2] : i \in {j \in 1..Len(trace) : trace[j][1] = "end"}}

\* the step blocks the requested list enables
RequestedBlocks ==
  LET R == Range(raw_steps) IN
  {n \in ALLOWED_STEPS \ {"tsconfig_bundle"} :
     CASE n = "configs" -> "configs" \in R \/ "tsconfig_bundle" \in R
       [] n = "keyword_search" -> n \in R /\ search_sets > 0
       [] n = "project_root_files" -> n \in R /\ ~drop_root_files
       [] OTHER -> n \in R}

\* C1: the phases of a run_backup call run strictly one after another
\* (every phase ends before the next begins), in the fixed order
\* Pre-checks, the enabled steps in the order trees, code_txt,
\* ts_tsx_md_bundles, full_ts_tsx_bundle, configs/tsconfig_bundle,
\* api_group_bundles, paths, keyword_search, project_root_files, then the
\* ZIP archive unless skipped, then Summary, whatever the order of the
\* requested list; no phase runs twice, only enabled phases run, and a run
\* that returns has run all of them.
C1_PhaseOrder ==
  /\ \A i \in 1..Len(trace) :
       /\ (i % 2 = 1) => trace[i][1] = "begin"
       /\ (i % 2 = 0) => trace[i][1] = "end" /\ trace[i][2] = trace[i - 1][2]
       /\ (i % 2 = 1 /\ i > 2) => Rank(trace[i][2]) > Rank(trace[i - 2][2])
  /\ Len(trace) > 0 => trace[1][2] = "Pre-checks"
  /\ Begun \subseteq
       {"Pre-checks", "Summary"} \cup RequestedBlocks
         \cup (IF skip_zip THEN {} ELSE {"zip"})
  /\ pc = "done" =>
       Ended = {"Pre-checks", "Summary"} \cup RequestedBlocks
                 \cup (IF skip_zip THEN {} ELSE {"zip"})

\* C1 witness: a real run with archiving, asked for paths before trees, has
\* returned
C1_Witness ==
  /\ pc = "done" /\ ~dry_run /\ ~skip_zip
  /\ raw_steps = <<"paths", "trees">>
  /\ Len(trace) = 10

\* C2: when the cancel flag is set at a step's pre-step checkpoint, in a
\* dry run or a real one, the step raises BackupCancelled there, no file
\* is created and no statistics are recorded from then on, and the run
\* ends as BackupCancelled.
C2_CancelBeforeStep ==
  [][/\ (pc = "step" /\ blk <= NumBlocks /\ cancel_event
          /\ progress' # progress)
        => (pc' = "except" /\ exc' = "BackupCancelled" /\ fs' = fs
            /\ result' = result)
     /\ (pc = "except" /\ exc = "BackupCancelled")
        => (pc' = "failed" /\ outcome' = "BackupCancelled" /\ fs' = fs
            /\ result'.stats = result.stats)
     /\ pc = "failed" => (fs' = fs /\ result' = result /\ outcome' = outcome)
    ]_vars

\* C2 witness: a dry run was cancelled at the checkpoint of its paths step
\* after trees had been planned
C2_Witness ==
  /\ pc = "failed" /\ outcome = "BackupCancelled" /\ dry_run
  /\ trace[Len(trace)] = <<"begin", "paths">> /\ out_k = 0
  /\ DOMAIN result.stats = {"trees"}

\* C3: a run that raised ends in exactly one of three outcomes: a
\* cancellation (from an engine checkpoint or from inside a writer) ends
\* as BackupCancelled and is logged under CANCEL; a BackupConfigError, which
\* only pre-checks raise, ends as BackupConfigError; anything else ends as
\* BackupIOError.  BackupCancelled is reported only for a cancellation.
C3_Classification ==
  /\ pc = "failed" =>
       /\ outcome \in {"BackupCancelled", "BackupConfigError", "BackupIOError"}
       /\ exc = "BackupCancelled" =>
            (outcome = "BackupCancelled" /\ "CANCEL" \in logged)
       /\ exc = "BackupConfigError" => outcome = "BackupConfigError"
       /\ exc \notin {"BackupCancelled", "BackupConfigError"} =>
            outcome = "BackupIOError"
       /\ outcome = "BackupCancelled" => (exc = "BackupCancelled" /\ cancel_event)
       /\ outcome = "BackupIOError" => exc \in {"OSError", "ZoneInfoNotFoundError"}
  /\ exc = "BackupConfigError" => trace[Len(trace)] = <<"begin", "Pre-checks">>
  /\ pc = "done" => (outcome = "returned" /\ exc = "none")

\* C3 witness: a cancellation raised inside the configs writer of a real
\* run has left run_backup
C3_Witness ==
  /\ pc = "failed" /\ outcome = "BackupCancelled" /\ ~dry_run
  /\ trace[Len(trace)] = <<"begin", "configs">> /\ out_k = 2

\* C4: a dry run creates no directory and writes no file in any phase;
\* created_files and created_directories stay empty, zip_path stays
\* unset, and no I/O error is raised, whether or not the backup root and
\* the archive output directory exist.
C4_DryRunWritesNothing ==
  dry_run =>
    /\ fs = {}
    /\ result.created_files = <<>>
    /\ result.created_directories = <<>>
    /\ result.zip_path = "None"
    /\ exc # "OSError"
    /\ outcome # "BackupIOError" \/ exc = "ZoneInfoNotFoundError"

\* C4 witness: a dry run that found both directories missing has returned
\* after two steps and the archive phase
C4_Witness ==
  /\ dry_run /\ pc = "done" /\ ~skip_zip
  /\ "DRY RUN: would create backup_root" \in logged
  /\ "DRY RUN: would create zip_output_dir" \in logged
  /\ Len(include_steps) = 2 /\ "zip" \in DOMAIN result.stats

\* the steps in effect for the statistics of a dry run
EnabledStepNames ==
  {s \in Range(include_steps) : s = "keyword_search" => search_sets > 0}

\* C5: a completed dry run with archiving skipped returns a result with
\* backup_root_path set, zip_path unset, and statistics whose keys are
\* exactly the names of the enabled steps, each a planned entry.
C5_DryRunStats ==
  (pc = "done" /\ dry_run /\ skip_zip) =>
    /\ caller_view.kind = "result"
    /\ caller_view.value.backup_root_path # "None"
    /\ caller_view.value.zip_path = "None"
    /\ DOMAIN caller_view.value.stats = EnabledStepNames
    /\ \A s \in DOMAIN caller_view.value.stats :
         caller_view.value.stats[s].kind = "planned"

\* C6: a dry run and a real run of the same project, profile and
\* arguments that both return have made the same progress calls, in the
\* same order.
C6_SameProgress ==
  (run_no = 2 /\ pc = "done") => progress = prev_progress

\* C6 witness: the real counterpart of a dry run has returned after two
\* steps and the archive phase
C6_Witness ==
  /\ run_no = 2 /\ pc = "done" /\ ~dry_run /\ ~skip_zip
  /\ Len(prev_progress) = 5 /\ Len(include_steps) = 2

ZipStarted == "zip" \in Begun \/ "archive.zip" \in fs

\* C7: once a phase has raised, no progress call is made, no phase begins
\* or ends, and no file (the archive included) is written; the archive
\* phase starts only when every enabled step has ended and nothing has
\* been raised.
C7_StopAtFirstError ==
  [][/\ exc # "none" =>
          (progress' = progress /\ trace' = trace /\ fs' = fs
           /\ result'.stats = result.stats /\ exc' = exc
           /\ pc' \in {"except", "failed"})
     /\ (~dry_run /\ ZipStarted' /\ ~ZipStarted) =>
          (exc = "none" /\ RequestedBlocks \subseteq Ended)
    ]_vars

\* C7 witness: a real run whose second step failed on I/O after the first
\* had written its files, with archiving requested
C7_Witness ==
  /\ pc = "failed" /\ ~dry_run /\ ~skip_zip /\ outcome = "BackupIOError"
  /\ "full_ts_tsx_bundle" \in Ended
  /\ trace[Len(trace)] = <<"begin", "paths">>
  /\ "ts_full_bundle" \in fs /\ "archive.zip" \notin fs

\* C8: when a real run fails with BackupIOError after some phases have
\* completed, the caller of run_backup holds the BackupResult with the
\* statistics, files and directories recorded up to the failure.
C8_PartialResultsAvailable ==
  (pc = "failed" /\ ~dry_run /\ outcome = "BackupIOError"
     /\ DOMAIN result.stats # {}) =>
    (caller_view.kind = "result" /\ caller_view.value = result)

\* C9: get_current_time queries the network sources in the order
\* worldtimeapi.org, timeapi.io, google-header, each at most once, a source
\* only after every earlier one has failed and none after one has
\* succeeded; the returned tag names the first source that succeeded; with
\* use_network_time false no source is queried.
C9_SourceOrder ==
  /\ Len(queries) <= 3
  /\ \A i \in 1..Len(queries) :
       /\ queries[i].source =
            (CASE i = 1 -> "worldtimeapi.org" [] i = 2 -> "timeapi.io"
               [] OTHER -> "google-header")
       /\ i < Len(queries) => ~queries[i].ok
  /\ ~use_network_time => queries = <<>>
  /\ time_result.kind = "returned" =>
       IF \E i \in 1..Len(queries) : queries[i].ok
       THEN time_result.source = queries[Len(queries)].source
       ELSE time_result.source = "system"
  /\ (time_result.kind = "returned" /\ use_network_time
        /\ time_result.source = "system") => Len(queries) = 3

\* C9 witness: timeapi.io answered after worldtimeapi.org had failed
C9_Witness ==
  /\ pc = "time_done" /\ time_result.source = "timeapi.io"
  /\ Len(queries) = 2 /\ ~queries[1].ok

\* C10: get_current_time returns a TimeResult for every timezone name,
\* every use_network_time and every combination of source failures, and
\* the tag is "system" exactly when use_network_time is false or all three
\* sources failed.
C10_NeverFails ==
  /\ time_result.kind # "raised"
  /\ time_result.kind = "returned" =>
       (time_result.source = "system" <=>
          (~use_network_time
             \/ (Len(queries) = 3 /\ \A i \in 1..3 : ~queries[i].ok)))

(* ----------------------- the Jalali calendar --------------------------- *)
\* leap years of the Jalali calendar (33-year rule, valid for 1244-1472)
JalaliLeap(y) == (y % 33) \in {1, 5, 9, 13, 17, 22, 26, 30}

\* months 1-6 have 31 days, 7-11 have 30, month 12 has 29 or 30
JalaliMonthLen(y, m) ==
  IF m <= 6 THEN 31 ELSE IF m <= 11 THEN 30
  ELSE IF JalaliLeap(y) THEN 30 ELSE 29

\* days from 0001-01-01 to a Gregorian date (datetime.toordinal)
GregOrdinal(dt) ==
  LET y == dt[1] - 1 IN
  365 * y + (y \div 4) - (y \div 100) + (y \div 400)
    + GDaysBefore(dt[2] - 1)
    + (IF dt[2] > 2 /\ GregLeap(dt[1]) THEN 1 ELSE 0) + dt[3]

\* the ordinal of the first day of a Jalali year, counted year by year
\* from the reference pair 2024-03-20 = 1403-01-01
RECURSIVE Nowruz(_)
Nowruz(jy) ==
  IF jy = 1403 THEN GregOrdinal(<<2024, 3, 20>>)
  ELSE Nowruz(jy - 1) + (IF JalaliLeap(jy - 1) THEN 366 ELSE 365)

\* month and day of the n-th day (from 0) of Jalali year jy, from month m on
RECURSIVE JalaliMonthDay(_, _, _)
JalaliMonthDay(jy, m, n) ==
  IF n < JalaliMonthLen(jy, m) THEN <<m, n + 1>>
  ELSE JalaliMonthDay(jy, m + 1, n - JalaliMonthLen(jy, m))

\* the Jalali date of a Gregorian day on or after 2024-03-20
RefJalali(dt) ==
  LET o == GregOrdinal(dt)
      jy == CHOOSE y \in 1403..(1403 + dt[1] - 2024) :
              Nowruz(y) <= o /\ o < Nowruz(y + 1)
      md == JalaliMonthDay(jy, 1, o - Nowruz(jy))
  IN <<jy, md[1], md[2]>>

\* C11: on every day of the range, which starts at the reference pair
\* 2024-03-20 = 1403-01-01, gregorian_to_jalali returns the year, month and
\* day of the Jalali calendar.
C11_MatchesReference == greg # NoDate => jalali = RefJalali(greg)

\* the directories above a file, below the scan root
AncestorNames(q) == {q[i] : i \in 1..(Len(q) - 1)}

\* the files the scan is to yield
ExpectedFiles(cfg, tree) ==
  {q \in tree :
     /\ AncestorNames(q) \cap cfg.skip_dirs = {}
     /\ q[Len(q)] \notin cfg.skip_files
     /\ \A k \in 1..Len(cfg.skip_if_contains) :
          ~IsInfix(cfg.skip_if_contains[k], Spell[q[Len(q)]])
     /\ ~cfg.allowed_extensions.is_none
          => PathSuffix(q[Len(q)]) \in cfg.allowed_extensions.value}

\* C12: iter_files never yields a file outside the expected set nor lists a
\* directory named in skip_dirs, and when the walk is over it has yielded
\* exactly the files with no skipped ancestor directory, a name outside
\* skip_files, no skip_if_contains substring and an allowed extension; for
\* {a.ts, b.test.ts, node_modules/c.ts} with the TS extensions,
\* node_modules excluded and pattern .test. that is {a.ts}.
C12_ScanYieldsExactly ==
  /\ scan_yielded \subseteq ExpectedFiles(scan_cfg, scan_tree)
  /\ \A d \in scan_visited : d = <<>> \/ d[Len(d)] \notin scan_cfg.skip_dirs
  /\ (scan_visited # {} /\ scan_todo = <<>>) =>
       /\ scan_yielded = ExpectedFiles(scan_cfg, scan_tree)
       /\ (/\ scan_tree = {<<"a.ts">>, <<"b.test.ts">>, <<"node_modules", "c.ts">>}
           /\ scan_cfg.allowed_extensions = SomeExts(TsExtensions)
           /\ "node_modules" \in scan_cfg.skip_dirs
           /\ Len(scan_cfg.skip_if_contains) = 1)
          => scan_yielded = {<<"a.ts">>}

\* the scan of the example tree under the example configuration is over
C12_Witness ==
  /\ scan_visited # {} /\ scan_todo = <<>>
  /\ scan_tree = {<<"a.ts">>, <<"b.test.ts">>, <<"node_modules", "c.ts">>}
  /\ scan_cfg.allowed_extensions = SomeExts(TsExtensions)
  /\ scan_cfg.skip_dirs = {"node_modules", "dist"}
  /\ scan_cfg.skip_files = {"README.md"}
  /\ Len(scan_cfg.skip_if_contains) = 1
  /\ scan_yielded = {<<"a.ts">>}

\* the calls that read the file
TextReads == {i \in 1..Len(read_outputs) : read_outputs[i].kind = "text"}

AppendedNow == Len(bundle_entries') = Len(bundle_entries) + 1
LastEntry == bundle_entries'[Len(bundle_entries')]

\* the read of the source file at hand has just failed
ReadJustFailed == failed_reads' # failed_reads

\* after a failed read the step has not raised, warn has been called for
\* the file and the writer stands at the next source file
GoesOnAfterFailedRead ==
  /\ pc' = "body" /\ exc' = "none"
  /\ ReadWarning(Outputs(blk, active_sets)[out_k], bw_src) \in warned'
  /\ bw_src' = bw_src + 1 /\ out_k' = out_k

\* the entry just appended is the placeholder of the file at hand
PlaceholderAppended ==
  /\ AppendedNow
  /\ LastEntry =
       [out |-> Outputs(blk, active_sets)[out_k], src |-> bw_src,
        body |-> "placeholder"]

\* when the writer of a bundle that takes every file returns, every source
\* file of every output has an entry
AllFilesProcessed ==
  (pc = "body" /\ pc' = "step" /\ OpensBeforeCheck(blk)
     /\ Blocks[blk] # "keyword_search")
  => \A k \in 1..Len(Outputs(blk, active_sets)) :
       \A i \in 1..NumSources(blk, k) :
         \E e \in 1..Len(bundle_entries) :
           /\ bundle_entries[e].out = Outputs(blk, active_sets)[k]
           /\ bundle_entries[e].src = i

SameMinuteOtherSecond ==
  /\ engines # <<>>
  /\ engines[1].dt.date = engines[2].dt.date
  /\ engines[1].dt.hour = engines[2].dt.hour
  /\ engines[1].dt.minute = engines[2].dt.minute
  /\ engines[1].dt.second # engines[2].dt.second

\* C15: two runs for projects with distinct ids whose resolved instants lie
\* in the same minute and differ in their seconds never share a backup
\* directory: every run created its own directory and took over none that
\* the other run created.
C15_NoDirCollision ==
  SameMinuteOtherSecond =>
    /\ reused_dirs = {}
    /\ \A i \in 1..2 :
         engines[i].pc = "steps" => <<engines[i].backup_dir, i>> \in made_dirs
    /\ (engines[1].pc = "steps" /\ engines[2].pc = "steps")
         => engines[1].backup_dir # engines[2].backup_dir

(* ------------------------- unknown step names -------------------------- *)
\* the step list asked for names a step outside ALLOWED_STEPS
AsksUnknownStep == \E i \in 1..Len(requested.steps) : requested.steps[i] \notin ALLOWED_STEPS

\* the recognized steps of the list asked for, as blocks of run_backup
RecognizedBlocks ==
  LET R == Range(requested.steps) IN
  {n \in ALLOWED_STEPS \ {"tsconfig_bundle"} :
     CASE n = "configs" -> "configs" \in R \/ "tsconfig_bundle" \in R
       [] n = "keyword_search" -> n \in R /\ search_sets > 0
       [] n = "project_root_files" -> n \in R /\ ~drop_root_files
       [] OTHER -> n \in R}

\* C16: a requested step name outside the recognized set, in the profile's
\* include_steps or in the override, is never fatal: loading the config
\* does not fail on it, the run that follows drops it with a warning, and a
\* run that returns has run the recognized steps of the same list.
C16_UnknownStepNeverFatal ==
  AsksUnknownStep =>
    /\ config_outcome # "BackupConfigError"
    /\ pc \notin {"config", "config_failed", "idle"} =>
         /\ "Ignoring unknown include_steps" \in warned
         /\ \A i \in 1..Len(include_steps) : include_steps[i] \in ALLOWED_STEPS
    /\ pc = "done" => RecognizedBlocks \subseteq Ended

(* --------------------------- the root helper --------------------------- *)
\* C17: when profile.no_root_files is true or include_project_root_files
\* is False, the project_root_files step never executes and never emits a
\* progress callback, in a dry run or a real one, although the requested
\* list names it: no progress call carries its label, the block neither
\* begins nor logs, no statistics are recorded under its name and neither
\* of its files is written.
C17_RootHelperDisabled ==
  drop_root_files =>
    /\ \A i \in 1..Len(progress) : progress[i][3] # step_to_label["project_root_files"]
    /\ \A i \in 1..Len(trace) : trace[i][2] # "project_root_files"
    /\ "project_root_files" \notin DOMAIN result.stats
    /\ "DRY RUN: project_root_files" \notin logged
    /\ \A i \in 1..Len(RootFilesOutputs) :
         /\ RootFilesOutputs[i] \notin fs
         /\ RootFilesOutputs[i] \notin Range(result.created_files)

\* C17 witness: a real run asked for paths and the root helper, with the
\* root helper disabled, has returned after writing the path listings
C17_Witness ==
  /\ drop_root_files /\ ~dry_run /\ pc = "done"
  /\ raw_steps = <<"project_root_files", "paths">>
  /\ "paths" \in DOMAIN result.stats
  /\ {"paths", "paths_ts"} \subseteq fs

(* ------------------------- keyword-search sets ------------------------- *)
\* the keyword-search block has resolved its sets
KwResolved == kw.pc \in {"dry", "search", "end"} \/ kw.exc = "OSError"

\* the requested ids that are configured, and those that are not
IdsAsked == Range(search_set_ids.value)
IdsConfigured == Range(app_search_sets)

\* C18: the keyword-search step runs if and only if it is enabled and at
\* least one search set is configured; it works on all configured sets
\* when no ids are given, and otherwise on exactly the requested ids that
\* are configured, in the order asked, each id not found giving one warning
\* and no exception; a dry run plans and a real run processes these sets
\* and no others.
C18_SearchSetsResolved ==
  /\ kw.pc \notin {"off", "guard"} =>
       (kw.entered <=> (kw.enabled /\ Len(app_search_sets) >= 1))
  /\ KwResolved =>
       /\ (search_set_ids.is_none \/ search_set_ids.value = <<>>) =>
            /\ kw.active_sets = app_search_sets
            /\ kw.warned = <<>>
       /\ ~(search_set_ids.is_none \/ search_set_ids.value = <<>>) =>
            /\ Range(kw.active_sets) = IdsAsked \cap IdsConfigured
            /\ kw.active_sets =
                 SelectSeq(search_set_ids.value, LAMBDA sid : sid \in IdsConfigured)
            /\ Range(kw.warned) =
                 {NotFoundWarning(sid) : sid \in IdsAsked \ IdsConfigured}
       /\ kw.exc \in {"none", "OSError"}
  /\ kw.pc = "resolve" => kw.exc = "none"
  /\ Range(kw.processed) \subseteq Range(kw.active_sets)
  /\ (kw.pc = "end" /\ kw.dry_run) =>
       kw.stats = <<"planned", Len(kw.active_sets)>> /\ kw.processed = <<>>
  /\ (kw.pc = "end" /\ ~kw.dry_run) =>
       kw.processed = kw.active_sets /\ kw.stats = <<"matches", Range(kw.active_sets)>>

\* C18 witness: with s1 and s2 configured, a real run asked for sx and s2
\* has searched s2 alone, after one warning about sx
C18_Witness ==
  /\ kw.pc = "end" /\ ~kw.dry_run
  /\ app_search_sets = <<"s1", "s2">>
  /\ search_set_ids = SomeIds(<<"sx", "s2">>)
  /\ kw.processed = <<"s2">>
  /\ kw.warned = <<NotFoundWarning("sx")>>

(* ------------------------ one worker at a time ------------------------- *)
\* the workers whose run() has not returned
ActiveWorkers == {i \in 1..Len(workers) : workers[i].state # "finished"}

\* C19: under every interleaving of start requests, cancel requests and
\* finished events at the window, at most one BackupWorker is active at any
\* time; a start request made while a worker is running creates no worker,
\* leaves the window's worker and every worker's state as they are, and is
\* answered with the "already running" message.
C19_OneWorkerAtATime ==
  /\ [](Cardinality(ActiveWorkers) <= 1)
  /\ [][/\ Len(workers') > Len(workers) => ActiveWorkers = {}
        /\ (ActiveWorkers # {} /\ \E d \in BOOLEAN : start_operation(d)) =>
             /\ workers' = workers
             /\ window'.worker = window.worker
             /\ window.ready => "already running" \in window'.log]_vars

\* C19 witness: the window's second worker is running a backup and a start
\* request made since it started was turned down; the first worker has
\* finished, after a cancel request reached its engine
C19_Witness ==
  /\ Len(workers) = 2 /\ window.worker = 2
  /\ workers[1].state = "finished" /\ workers[1].cancel_event
  /\ workers[2].state = "engine" /\ ~workers[2].dry_run
  /\ "already running" \in window.log

(* ---------------------- cancellation inside a step --------------------- *)
\* C20: once the cancel flag is set while a step of a real run is in
\* progress, the writer begins no further unit of work: no further output
\* file is started, no further source file is read or appended to a bundle,
\* and the run ends with BackupCancelled.
C20_CancelStopsWriter ==
  /\ [][(cancel_event /\ pc = "body" /\ blk \in WriterBlocks) =>
          /\ fs' = fs
          /\ bundle_entries' = bundle_entries
          /\ failed_reads' = failed_reads]_vars
  /\ []((cancel_event /\ pc \in {"done", "failed"}) => outcome = "BackupCancelled")

(* ----------------------------- the archive ----------------------------- *)
\* C21: create_zip produces one archive named <backup directory name>.zip
\* in the output directory; once it is closed its entries are exactly the
\* files under the backup directory, each under its path relative to the
\* backup directory's parent, so that every entry starts with the backup
\* directory's name; directories without files add nothing, and a backup
\* directory without files gives an archive without entries.
C21_ArchiveEntries ==
  /\ zip_st.pc \in {"walk", "done"} =>
       /\ zip_st.archive_path = zip_in.output_dir \o <<zip_in.name \o ".zip">>
       /\ \A e \in zip_st.entries :
            e[1] = zip_in.name /\ SubSeq(e, 2, Len(e)) \in zip_in.files
  /\ zip_st.pc = "done" =>
       /\ zip_st.entries = {<<zip_in.name>> \o q : q \in zip_in.files}
       /\ Cardinality(zip_st.entries) = Cardinality(zip_in.files)

\* C21 witness: the archive of a backup directory with a note, a nested
\* bundle and an empty directory, kept two levels below the root, is closed
\* with its two entries
C21_Witness ==
  /\ zip_st.pc = "done"
  /\ zip_in.parent = <<"data", "backups">>
  /\ zip_in.files = {<<"notes.txt">>, <<"code", "api", "api_code.txt">>}
  /\ zip_in.empty_dirs = {<<"empty">>}
  /\ Cardinality(zip_st.entries) = 2

(* --------------------------- section headers --------------------------- *)
\* the paths that can be read back from what precedes a section's body
PathsIn(head) == {head[i] : i \in 1..Len(head)} \cap Range(HdrPaths)

\* C22: for every output format and every separator style, custom
\* included, the writer gets through every scanned file, each section it
\* writes carries a header from which the file's relative path, and no
\* other, can be read back, that path is a scanned file's, and two distinct
\* files never get the same header.
C22_HeaderIdentifiesFile ==
  /\ hdr_pc # "raised"
  /\ \A i \in 1..Len(hdr_sections) :
       /\ PathsIn(hdr_sections[i].head) = {hdr_sections[i].path}
       /\ hdr_sections[i].path \in hdr_files
  /\ \A i, j \in 1..Len(hdr_sections) :
       i # j => hdr_sections[i].head # hdr_sections[j].head

(* --------------------- cancelling a universal backup ------------------- *)
\* C23: when cancel_check raises BackupCancelled at a checkpoint of
\* run_universal_backup, during the scan, between folder groups or before
\* a file of an output being written, the call ends by raising
\* BackupCancelled: it is neither turned into BackupIOError nor followed
\* by a normal return.
C23_CancelPropagates ==
  ub.signalled # "None" => (ub.pc = "raised" /\ ub.outcome = "BackupCancelled")

(* --------------------------- progress indices -------------------------- *)
\* C24: in every run_backup call that returns, the progress callbacks carry
\* the indices 1, 2, 3, ... in steps of one, all with the same total, no
\* index exceeds the total, and the last callback is 'Summary' with its
\* index equal to the total, whatever step list was requested.
C24_ProgressIndices ==
  pc = "done" =>
    /\ \A i \in 1..Len(progress) :
         /\ progress[i][1] = i
         /\ progress[i][2] = phase_total
         /\ progress[i][1] <= progress[i][2]
    /\ progress[Len(progress)][3] = "Summary"
    /\ progress[Len(progress)][1] = progress[Len(progress)][2]

(* ------------------------- steps left disabled ------------------------- *)
\* the bundle files that belong to a step
StepFiles(n) ==
  CASE n = "configs" -> {"configs"}
    [] n = "tsconfig_bundle" -> {"tsconfigs"}
    [] n = "keyword_search" -> Range(SearchOutputs(MaxSearchSets))
    [] OTHER ->
         Range(Outputs(CHOOSE b \in 1..NumBlocks : Blocks[b] = n, 0))

\* C25: in a real run a step that is not in the effective step list does
\* no work: none of its bundle files is written and no statistics are
\* recorded under its name; with only configs enabled there is no tsconfig
\* bundle and no tsconfig_bundle entry, with only tsconfig_bundle enabled
\* no general config bundle and no configs entry.
C25_DisabledStepDoesNothing ==
  ~dry_run =>
    \A n \in ALLOWED_STEPS \ Range(EffectiveSteps(raw_steps, drop_root_files)) :
      /\ n \notin DOMAIN result.stats
      /\ StepFiles(n) \cap fs = {}

(* ----------------------- cancel requests at the worker ----------------- *)
\* C26: a cancel request made through BackupWorker.cancel after the worker
\* was started and before the run has passed its last cancellation
\* checkpoint, also one made before the worker thread has constructed its
\* BackupEngine, is not lost: the run ends as cancelled, or with the error
\* that stopped it first, and never returns as if nothing had been asked.
C26_CancelNotLost ==
  \A i \in 1..Len(workers) :
    (workers[i].requested_at \cap {"started", "engine"} # {}
       /\ workers[i].ended # "none")
      => workers[i].ended \in {"cancelled", "raised"}

(* ----------------------- valid Jalali month and day -------------------- *)
\* C27: on every day of the range gregorian_to_jalali returns a month in
\* 1..12 and a day in 1..31, at most 30 in the months 7..12; month 0 or
\* day 0 is never returned, the last day of a Jalali leap year included.
C27_ValidMonthAndDay ==
  greg # NoDate =>
    /\ jalali[2] \in 1..12
    /\ jalali[3] \in 1..31
    /\ jalali[2] >= 7 => jalali[3] <= 30

(* ------------------------- one file for each bundle -------------------- *)
\* C28: within one real run the filename builder gives distinct logical
\* base names, with the same extension, distinct paths under the backup
\* directory, for every OutputConfig: dynamic_names on or off, any
\* name_template, and the fallback taken when the template cannot be
\* expanded; no bundle overwrites another bundle of the run.
C28_DistinctBundlePaths ==
  \A e, f \in nb_paths : e[1] # f[1] => e[2] # f[2]

(* ----------------------- the files a run reports ----------------------- *)
\* the note file and the bundle files of every step
RunFiles ==
  {"backup_note"}
    \cup UNION {Range(Outputs(b, n)) : b \in 1..NumBlocks, n \in 0..MaxSearchSets}

\* C29: after a real run completes, result.created_files holds the path of
\* every file the run wrote, the note file and every bundle file of every
\* executed step, so the number of files the window reports on completion
\* is the number of files written.
C29_CreatedFilesComplete ==
  (pc = "done" /\ ~dry_run) =>
    /\ fs \cap RunFiles \subseteq Range(result.created_files)
    /\ Len(result.created_files) = Cardinality(fs \cap RunFiles)

(* --------------------------- the trees count --------------------------- *)
\* C30: after the trees step of a real run, stats['trees']['files_written']
\* is the number of tree files the step wrote: one for each designated
\* sub-area that exists (apps/admin, apps/api, apps/site, libs) and the two
\* whole-project trees, however many paths each tree lists.
C30_TreesFilesWritten ==
  tr_st.pc = "done" =>
    /\ tr_st.files_written = Cardinality(tr_st.written)
    /\ tr_st.files_written =
         Cardinality({k \in 1..NumAreaTrees : TrIsDir(tr_in, TreeCalls[k].root)}) + 2
====
